---- MODULE Spec2Model ----
(***************************************************************************)
(* Host-side driver stack of the DNN accelerator (04_software): the HAL    *)
(* device allocator (hal_mem.c), the status / wait primitives (hal_io.c),  *)
(* the register programmer (hal_config.c), the driver facade (accel.c,     *)
(* accel_config.c) and the C++ runtime on top of it (runtime.hpp,          *)
(* buffer.hpp).                                                            *)
(*                                                                         *)
(* Addresses and sizes are byte quantities.  The accelerator-memory window *)
(* and the width of size_t are scaled down (WindowUnits, SizeBits) so that *)
(* the block lists stay enumerable; every other number is the one in the   *)
(* source.                                                                 *)
(***************************************************************************)
EXTENDS Integers, Sequences, FiniteSets, Bags, TLC

\* ------------------------------------------------------------------------
\* Bounds of the model
\* ------------------------------------------------------------------------
\* the accelerator-memory window holds WindowUnits alignment quanta
WindowUnits == 32
\* number of value bits of size_t / of a pointer
SizeBits == 14
\* largest number of allocations outstanding at one time
MaxLive == 5
\* largest number of requests exceeding the window that one context is seen
\* to grant
MaxOversize == 1
\* number of accel::Runtime objects the program may hold at one time
MaxRuntimes == 2
\* number of accel::Buffer objects the program may hold at one time
MaxBufObjs == 3

\* ------------------------------------------------------------------------
\* Program constants
\* ------------------------------------------------------------------------
HAL_MEM_ALIGN == 64
HAL_ACCEL_MEM_BASE == 805306368
HAL_ACCEL_MEM_SIZE == WindowUnits * HAL_MEM_ALIGN
\* sizeof(struct mem_block) on an LP64 target: pointer, size_t, bool
\* (padded to 8), pointer
SizeofMemBlock == 32
\* getpagesize()
PageSize == 4096
NULL == 0

\* size_t arithmetic is modulo 2^SizeBits; SIZE_MAX is (size_t)-1
SizeMod == 2 ^ SizeBits
SIZE_MAX == SizeMod - 1

\* page-aligned addresses at which mmap may place the accelerator window
MmapBases == {PageSize, 2 * PageSize}

VARIABLES
  ctx_live,           \* a hal_context_t exists (hal_init .. hal_cleanup)
  accel_memory_base,  \* ctx->accel_memory_base (= mem_ctx->base_addr)
  mem_ctx,            \* ctx->mem_ctx is non-NULL
  blocks,             \* mem_ctx->blocks: the linked list, head first
  live,               \* bag of [addr, size]: returned by alloc, not yet freed
  oversize,           \* requests exceeding the window granted by this context
  xlat,               \* the hal_virt_to_phys call just made: [vaddr, phys]
  fragPc,             \* progress through test_hal_mem_fragmentation
  fragPtrs,           \* the addresses that test has obtained so far
  status,             \* ctx->status
  mapped_memory,      \* content of the register window (one instruction record)
  pc,                 \* "idle", or "poll" inside hal_wait_for_ready
  call,               \* the call in progress: [fn, stage, ir, next]
  retries,            \* the local retries of hal_wait_for_ready
  polls,              \* status reads made by the current hal_wait_for_ready
  returned,           \* the call that returned last: [fn, val]
  regs_at_call,       \* register window content when the last call began
  g_ctx,              \* the driver session: [initialized, config, last_error]
  inflight,           \* a submitted operation the device has not yet reacted to
  released,           \* what the cleanups of the newest context have released
  hal_trace,          \* HAL functions entered by the newest driver call
  writes,             \* records the newest driver call has stored in the window
  call_arg,           \* the arguments of the newest driver call
  buffers,            \* accel_buffer_t descriptors of the running session
  e2ePc,              \* progress through test_operation_submission, run twice
  e2eLog,             \* the results of the steps of that test so far
  prev_dirty,         \* the session closed last ended with state worth leaking
  runtimes,           \* accel::Runtime objects: constructed and not destroyed
  bufobjs,            \* accel::Buffer objects: [alive, buffer_]
  dangling,           \* accel_free_buffer was handed a descriptor already freed
  rt_call,            \* the Runtime method last entered: [method, stage, calls]
  init_log,           \* what the newest hal_init acquired and released
  contexts,           \* two hal_context_t side by side: [live, status, mem_ctx]
  mem_ctxs,           \* the heap objects hal_mem_init creates: [live, blocks]
  ctx_arg,            \* the context the newest call on one of the two was given
  kept                \* descriptors the caller holds from the last session

twoVars == <<contexts, mem_ctxs, ctx_arg>>
ctxVars == <<ctx_live, accel_memory_base, released, init_log, twoVars>>
memVars == <<mem_ctx, blocks, live, oversize, fragPc, fragPtrs>>

ioVars == <<status, mapped_memory, pc, call, retries, polls, returned,
            regs_at_call>>
callMon == <<hal_trace, writes, call_arg>>
drvMon == <<buffers, e2ePc, e2eLog, prev_dirty>>
drvVars == <<g_ctx, inflight, hal_trace, writes, call_arg, buffers, e2ePc,
             e2eLog, prev_dirty>>
rtVars == <<runtimes, bufobjs, dangling, rt_call, kept>>

vars == <<ctx_live, accel_memory_base, mem_ctx, blocks, live, oversize, xlat,
          fragPc, fragPtrs, status, mapped_memory, pc, call, retries, polls,
          returned, regs_at_call, g_ctx, inflight, released, hal_trace,
          writes, call_arg, buffers, e2ePc, e2eLog, prev_dirty, runtimes,
          bufobjs, dangling, rt_call, init_log, contexts, mem_ctxs, ctx_arg,
          kept>>

\* ------------------------------------------------------------------------
\* hal_mem.c
\* ------------------------------------------------------------------------
\* (size + HAL_MEM_ALIGN - 1) & ~(HAL_MEM_ALIGN - 1) in size_t arithmetic
align_size(size) ==
  (((size + HAL_MEM_ALIGN - 1) % SizeMod) \div HAL_MEM_ALIGN) * HAL_MEM_ALIGN

\* hal_mem_init with the initial block marked used
hal_mem_init_used(base, size) ==
  << [addr |-> base, size |-> size, used |-> TRUE] >>

\* the single free block spanning the window that hal_mem_init creates
hal_mem_init(base, size) ==
  << [addr |-> base, size |-> size, used |-> FALSE] >>

\* the best-fit scan of hal_mem_alloc: index of best_fit, 0 for NULL
RECURSIVE best_fit_scan(_, _, _, _)
best_fit_scan(bl, i, size, best) ==
  IF i > Len(bl) THEN best
  ELSE LET best_size == IF best = 0 THEN SIZE_MAX ELSE bl[best].size
       IN  IF ~bl[i].used /\ bl[i].size >= size /\ bl[i].size < best_size
           THEN best_fit_scan(bl, i + 1, size, i)
           ELSE best_fit_scan(bl, i + 1, size, best)

\* "split block if it's significantly larger"
split_needed(block_size, size) ==
  block_size > (size + SizeofMemBlock + HAL_MEM_ALIGN) % SizeMod

\* alloc_take with the used block carved from the end of the chosen block
alloc_take_tail(bl, bf, size) ==
  IF split_needed(bl[bf].size, size)
  THEN SubSeq(bl, 1, bf - 1)
       \o << [addr |-> bl[bf].addr, size |-> bl[bf].size - size,
              used |-> FALSE],
             [addr |-> bl[bf].addr + bl[bf].size - size, size |-> size,
              used |-> TRUE] >>
       \o SubSeq(bl, bf + 1, Len(bl))
  ELSE [bl EXCEPT ![bf].used = TRUE]

\* the block list after hal_mem_alloc has taken block bf for an (aligned)
\* request of size bytes
alloc_take(bl, bf, size) ==
  IF split_needed(bl[bf].size, size)
  THEN SubSeq(bl, 1, bf - 1)
       \o << [addr |-> bl[bf].addr, size |-> size, used |-> TRUE],
             [addr |-> bl[bf].addr + size, size |-> bl[bf].size - size,
              used |-> FALSE] >>
       \o SubSeq(bl, bf + 1, Len(bl))
  ELSE [bl EXCEPT ![bf].used = TRUE]

\* result of hal_mem_alloc: [ret, blocks].  mallocOk tells whether the host
\* malloc of the header of the split-off block succeeds.
hal_mem_alloc(ctxNull, size, mallocOk) ==
  IF ctxNull \/ ~mem_ctx \/ size = 0
  THEN [ret |-> NULL, blocks |-> blocks]
  ELSE LET asize == align_size(size)
           bf == best_fit_scan(blocks, 1, asize, 0)
       IN  IF bf = 0
           THEN [ret |-> NULL, blocks |-> blocks]
           ELSE IF split_needed(blocks[bf].size, asize) /\ ~mallocOk
                THEN [ret |-> NULL, blocks |-> blocks]
                ELSE [ret |-> blocks[bf].addr,
                      blocks |-> alloc_take(blocks, bf, asize)]

\* index of the first block whose addr is ptr, 0 when the walk ends at NULL
RECURSIVE find_block(_, _, _)
find_block(bl, i, ptr) ==
  IF i > Len(bl) THEN 0
  ELSE IF bl[i].addr = ptr THEN i
  ELSE find_block(bl, i + 1, ptr)

\* "merge with next block if it's free" (the while loop)
RECURSIVE merge_next(_, _)
merge_next(bl, i) ==
  IF i < Len(bl) /\ ~bl[i + 1].used
  THEN merge_next(SubSeq(bl, 1, i - 1)
                  \o << [bl[i] EXCEPT !.size = bl[i].size + bl[i + 1].size] >>
                  \o SubSeq(bl, i + 2, Len(bl)), i)
  ELSE bl

\* merge_prev that forgets to add the size of the block it unlinks
merge_prev_drop(bl, i) ==
  IF i > 1 /\ ~bl[i - 1].used
  THEN SubSeq(bl, 1, i - 2) \o << bl[i - 1] >> \o SubSeq(bl, i + 1, Len(bl))
  ELSE bl

\* "merge with previous block if it's free"
merge_prev(bl, i) ==
  IF i > 1 /\ ~bl[i - 1].used
  THEN SubSeq(bl, 1, i - 2)
       \o << [bl[i - 1] EXCEPT !.size = bl[i - 1].size + bl[i].size] >>
       \o SubSeq(bl, i + 1, Len(bl))
  ELSE bl

\* the block list after hal_mem_free(ctx, ptr)
hal_mem_free(ctxNull, ptr) ==
  IF ctxNull \/ ~mem_ctx \/ ptr = NULL
  THEN blocks
  ELSE LET i == find_block(blocks, 1, ptr)
       IN  IF i = 0 \/ ~blocks[i].used
           THEN blocks
           ELSE merge_prev(
                  merge_next([blocks EXCEPT ![i].used = FALSE], i), i)

\* hal_virt_to_phys with the upper bound of the window taken inclusive
hal_virt_to_phys_incl(ctxNull, vaddr) ==
  IF ctxNull \/ ~mem_ctx
  THEN 0
  ELSE IF vaddr < accel_memory_base
          \/ vaddr > accel_memory_base + HAL_ACCEL_MEM_SIZE
       THEN 0
       ELSE HAL_ACCEL_MEM_BASE + (vaddr - accel_memory_base)

hal_virt_to_phys(ctxNull, vaddr) ==
  IF ctxNull \/ ~mem_ctx
  THEN 0
  ELSE IF vaddr < accel_memory_base
          \/ vaddr >= accel_memory_base + HAL_ACCEL_MEM_SIZE
       THEN 0
       ELSE HAL_ACCEL_MEM_BASE + (vaddr - accel_memory_base)

RECURSIVE free_bytes(_, _)
free_bytes(bl, i) ==
  IF i > Len(bl) THEN 0
  ELSE (IF bl[i].used THEN 0 ELSE bl[i].size) + free_bytes(bl, i + 1)

hal_mem_available(ctxNull) ==
  IF ctxNull \/ ~mem_ctx THEN 0 ELSE free_bytes(blocks, 1) % SizeMod

\* ------------------------------------------------------------------------
\* The calls of test_hal_mem_fragmentation, in order: five allocations of
\* small_size, the frees of ptrs[1] and ptrs[3] (C indices), one allocation
\* of small_size * 2.  fragPc counts the calls of the script made so far on
\* a fresh context; any other call takes it to -1, and a last allocation
\* that returns NULL although the host heap is not exhausted takes it to 9.
\* ------------------------------------------------------------------------
small_size == 256

frag_next(op, arg, ret, mallocOk) ==
  IF fragPc \in 0..4 /\ op = "hal_mem_alloc" /\ arg = small_size
     /\ ret # NULL
  THEN [pc |-> fragPc + 1, ptrs |-> Append(fragPtrs, ret)]
  ELSE IF fragPc = 5 /\ op = "hal_mem_free" /\ arg = fragPtrs[2]
  THEN [pc |-> 6, ptrs |-> fragPtrs]
  ELSE IF fragPc = 6 /\ op = "hal_mem_free" /\ arg = fragPtrs[4]
  THEN [pc |-> 7, ptrs |-> fragPtrs]
  ELSE IF fragPc = 7 /\ op = "hal_mem_alloc" /\ arg = small_size * 2
          /\ ret # NULL
  THEN [pc |-> 8, ptrs |-> Append(fragPtrs, ret)]
  ELSE IF fragPc = 7 /\ op = "hal_mem_alloc" /\ arg = small_size * 2
          /\ mallocOk
  THEN [pc |-> 9, ptrs |-> fragPtrs]
  ELSE [pc |-> -1, ptrs |-> << >>]

\* ------------------------------------------------------------------------
\* hal_base.h: status bits; hal_io.c: the bit tests
\* ------------------------------------------------------------------------
HAL_STATUS_READY == 1
HAL_STATUS_BUSY == 2
HAL_STATUS_COMPLETE == 4
HAL_STATUS_ERROR == 8

\* (word & bit) != 0 for a single-bit mask
bit_test(word, bit) == (word \div bit) % 2 = 1

\* hal_is_ready testing the BUSY bit
hal_is_ready_busy(ctxNull) ==
  IF ctxNull THEN FALSE ELSE bit_test(status, HAL_STATUS_BUSY)

hal_is_ready(ctxNull) ==
  IF ctxNull THEN FALSE ELSE bit_test(status, HAL_STATUS_READY)

\* hal_is_busy comparing the whole word with the mask
hal_is_busy_whole_word(ctxNull) ==
  IF ctxNull THEN FALSE ELSE status = HAL_STATUS_BUSY

hal_is_busy(ctxNull) ==
  IF ctxNull THEN FALSE ELSE bit_test(status, HAL_STATUS_BUSY)

hal_is_error(ctxNull) ==
  IF ctxNull THEN FALSE ELSE bit_test(status, HAL_STATUS_ERROR)

hal_get_status(ctxNull) == IF ctxNull THEN 0 ELSE status

\* "int retries = 100"
MaxRetries == 100

\* ------------------------------------------------------------------------
\* hal_config.h: the packed instruction record, as 32-bit words.  ir_data
\* is the union: ten words, the size of its largest member.
\* ------------------------------------------------------------------------
lo32(x) == (x % 65536) + 65536 * ((x \div 65536) % 65536)
hi32(x) == (x \div 65536) \div 65536

\* hal_controller_ir_t ir = {0}
ZeroIR ==
  [opcode |-> 0, src_addr |-> 0, dst_addr |-> 0, length |-> 0,
   control |-> 0, status |-> 0, ir_data |-> [i \in 1..10 |-> 0]]

\* memcpy(&ir.ir_data.lsu, config, sizeof(hal_lsu_config_t))
ir_lsu(c) ==
  [ZeroIR EXCEPT !.ir_data =
     << c.opcode, lo32(c.src_addr), hi32(c.src_addr), lo32(c.dst_addr),
        hi32(c.dst_addr), c.length, c.control, c.status, 0, 0 >>]

\* memcpy(&ir.ir_data.systolic_array, config, sizeof(hal_systolic_config_t))
ir_systolic(c) ==
  [ZeroIR EXCEPT !.ir_data =
     << c.opcode, c.in_height, c.in_width, c.in_channels, c.out_height,
        c.out_width, c.out_channels, c.stride, c.control, c.status >>]

\* memcpy(&ir.ir_data.img2col, config, sizeof(hal_img2col_config_t))
ir_img2col(c) ==
  [ZeroIR EXCEPT !.ir_data =
     << c.opcode, c.in_height, c.in_width, c.in_channels, c.kernel_size,
        c.stride, c.pad, c.control, c.status, 0 >>]

\* ------------------------------------------------------------------------
\* accel.c: opcodes, status codes, the session
\* ------------------------------------------------------------------------
HAL_OP_MATMUL == 1
HAL_OP_CONV == 2
ACCEL_OP_NONE == 0
ACCEL_OP_MATMUL == 1
ACCEL_OP_CONV2D == 2

\* g_ctx = {0}
ZeroSession ==
  [initialized |-> FALSE,
   config |-> [flags |-> 0, num_channels |-> 0, max_transfer |-> 0,
               timeout_ms |-> 0],
   last_error |-> ""]

\* hal_systolic_config_t systolic_cfg = {0} with opcode and control set
systolic_cfg(opcode, flags) ==
  [opcode |-> opcode, in_height |-> 0, in_width |-> 0, in_channels |-> 0,
   out_height |-> 0, out_width |-> 0, out_channels |-> 0, stride |-> 0,
   control |-> flags, status |-> 0]

\* hal_lsu_config_t with the two addresses exchanged
lsu_cfg_swapped(params) ==
  [opcode |-> 0, src_addr |-> params.output.dev_addr,
   dst_addr |-> params.input.dev_addr, length |-> params.input.size,
   control |-> 0, status |-> 0]

\* hal_lsu_config_t lsu_cfg = {0} with the addresses and the length set
lsu_cfg(params) ==
  [opcode |-> 0, src_addr |-> params.input.dev_addr,
   dst_addr |-> params.output.dev_addr, length |-> params.input.size,
   control |-> 0, status |-> 0]

\* convert_hal_status testing the BUSY bit before the ERROR bit
convert_hal_status_busy_first(hal_status) ==
  IF bit_test(hal_status, HAL_STATUS_BUSY) THEN "BUSY"
  ELSE IF bit_test(hal_status, HAL_STATUS_ERROR) THEN "ERROR"
  ELSE "OK"

convert_hal_status(hal_status) ==
  IF bit_test(hal_status, HAL_STATUS_ERROR) THEN "ERROR"
  ELSE IF bit_test(hal_status, HAL_STATUS_BUSY) THEN "BUSY"
  ELSE "OK"

\* accel_config.h: the configuration flags
ACCEL_CONFIG_ENABLE_DMA == 1
ACCEL_CONFIG_SYNC_MODE == 2
ACCEL_CONFIG_HIGH_PRIORITY == 4

\* the values accel_reset_config stores
DefaultConfig ==
  [flags |-> ACCEL_CONFIG_ENABLE_DMA, num_channels |-> 1,
   max_transfer |-> 16777216, timeout_ms |-> 1000]

\* accel_init that looks at the session before it looks at the path
accel_init_session_first(pathNull, halOk) ==
  IF g_ctx.initialized THEN "OK"
  ELSE IF pathNull THEN "INVALID_PARAM"
  ELSE IF ~halOk THEN "ERROR"
  ELSE "INIT"

\* the path accel_init(device_path) takes: the status it returns without
\* having initialized anything, or "INIT" when it goes on to set up the
\* session and return OK
accel_init(pathNull, halOk) ==
  IF pathNull THEN "INVALID_PARAM"
  ELSE IF g_ctx.initialized THEN "OK"
  ELSE IF ~halOk THEN "ERROR"
  ELSE "INIT"

\* accel_cleanup clearing only the initialized flag
memset_g_ctx_flag == [g_ctx EXCEPT !.initialized = FALSE]

\* memset(&g_ctx, 0, sizeof(g_ctx))
memset_g_ctx == ZeroSession

\* the descriptor with the host address in place of the device address
accel_buffer_host(host_addr, size) ==
  [host_addr |-> host_addr, dev_addr |-> host_addr, size |-> size]

\* the accel_buffer_t that accel_alloc_buffer fills in
accel_buffer(host_addr, size) ==
  [host_addr |-> host_addr, dev_addr |-> hal_virt_to_phys(FALSE, host_addr),
   size |-> size]

\* accel_configure storing a zero configuration for a NULL argument
accel_configure_null(configNull, config) ==
  IF ~g_ctx.initialized
  THEN [ret |-> "NOT_INITIALIZED", config |-> g_ctx.config]
  ELSE IF configNull
  THEN [ret |-> "OK", config |-> ZeroSession.config]
  ELSE [ret |-> "OK", config |-> config]

\* accel_configure that stores before it tests the session
accel_configure_unready(configNull, config) ==
  IF configNull
  THEN [ret |-> IF g_ctx.initialized THEN "INVALID_PARAM"
                ELSE "NOT_INITIALIZED",
        config |-> g_ctx.config]
  ELSE [ret |-> IF g_ctx.initialized THEN "OK" ELSE "NOT_INITIALIZED",
        config |-> config]

\* accel_configure(config): [ret, config], config being g_ctx.config
\* afterwards
accel_configure(configNull, config) ==
  IF ~g_ctx.initialized
  THEN [ret |-> "NOT_INITIALIZED", config |-> g_ctx.config]
  ELSE IF configNull
  THEN [ret |-> "INVALID_PARAM", config |-> g_ctx.config]
  ELSE [ret |-> "OK", config |-> config]

\* accel_get_error(): the text in the last-error slot
accel_get_error == g_ctx.last_error

\* the texts each facade function stores in the last-error slot
ErrorTexts(fn) ==
  IF fn = "accel_init" THEN {"Failed to initialize HAL"}
  ELSE IF fn = "accel_alloc_buffer"
  THEN {"Failed to allocate buffer descriptor",
        "Failed to allocate device memory"}
  ELSE IF fn = "accel_wait_complete" THEN {"Operation timed out"}
  ELSE {}

\* accel_get_config copying one field too few
accel_get_config_short(configNull, before) ==
  IF ~g_ctx.initialized
  THEN [ret |-> "NOT_INITIALIZED", out |-> before]
  ELSE IF configNull
  THEN [ret |-> "INVALID_PARAM", out |-> before]
  ELSE [ret |-> "OK",
        out |-> [g_ctx.config EXCEPT !.timeout_ms = before.timeout_ms]]

\* accel_get_config(config): [ret, out], out being what *config holds
\* afterwards (before is what it held before the call)
accel_get_config(configNull, before) ==
  IF ~g_ctx.initialized
  THEN [ret |-> "NOT_INITIALIZED", out |-> before]
  ELSE IF configNull
  THEN [ret |-> "INVALID_PARAM", out |-> before]
  ELSE [ret |-> "OK", out |-> g_ctx.config]

\* accel_reset_config without the test of the session
accel_reset_config_unchecked == [ret |-> "OK", config |-> DefaultConfig]

\* accel_reset_config(): [ret, config]
accel_reset_config ==
  IF ~g_ctx.initialized
  THEN [ret |-> "NOT_INITIALIZED", config |-> g_ctx.config]
  ELSE [ret |-> "OK", config |-> DefaultConfig]

\* UINT32_MAX, the largest size accel_alloc_buffer(uint32_t) can be given.
\* uint32_t is narrower than size_t: UINT32_MAX is more than the window and
\* UINT32_MAX + HAL_MEM_ALIGN does not wrap.
UINT32_MAX == 2 ^ (SizeBits - 1) - 1

\* the buffers of test_operation_submission: 1024 bytes each in the window
\* of the source, a quarter of the window here
TestBufferSize == (WindowUnits \div 4) * HAL_MEM_ALIGN

\* ------------------------------------------------------------------------
\* Inputs
\* ------------------------------------------------------------------------
\* request sizes: zero, the sizes of the fragmentation test, one that is
\* rounded up and leaves a remainder too small to split off, the whole
\* window, one byte more, and the largest size_t
AllocSizes ==
  {0, small_size, small_size * 2, HAL_ACCEL_MEM_SIZE - 100,
   HAL_ACCEL_MEM_SIZE, HAL_ACCEL_MEM_SIZE + 1, SIZE_MAX}

\* pointers handed to free / translate: NULL, every block base, every
\* outstanding address, addresses inside blocks, the first address past
\* the window and addresses outside it
ProbePtrs ==
  {NULL, accel_memory_base + 32, accel_memory_base + HAL_MEM_ALIGN,
   accel_memory_base + HAL_ACCEL_MEM_SIZE - 1,
   accel_memory_base + HAL_ACCEL_MEM_SIZE, accel_memory_base - 1, SIZE_MAX}
  \cup {blocks[i].addr : i \in 1..Len(blocks)}
  \cup {r.addr : r \in BagToSet(live)}

\* a caller may pass NULL for the context at any time, the context itself
\* only while it exists
CtxArgs == IF ctx_live THEN {FALSE, TRUE} ELSE {TRUE}

\* what the register window may hold when it is mapped
RegResets == {ZeroIR, [ZeroIR EXCEPT !.status = HAL_STATUS_READY]}

\* values written by hal_set_status
StatusValues ==
  {0, HAL_STATUS_READY, HAL_STATUS_BUSY,
   HAL_STATUS_READY + HAL_STATUS_COMPLETE, HAL_STATUS_ERROR}

LsuConfigs ==
  {[opcode |-> 3, src_addr |-> HAL_ACCEL_MEM_BASE,
    dst_addr |-> HAL_ACCEL_MEM_BASE + 1024, length |-> 1024,
    control |-> 1, status |-> 0]}

SystolicConfigs ==
  {[opcode |-> HAL_OP_CONV, in_height |-> 8, in_width |-> 8,
    in_channels |-> 3, out_height |-> 6, out_width |-> 6,
    out_channels |-> 4, stride |-> 1, control |-> 1, status |-> 0]}

Img2colConfigs ==
  {[opcode |-> 4, in_height |-> 8, in_width |-> 8, in_channels |-> 3,
    kernel_size |-> 3, stride |-> 1, pad |-> 0, control |-> 0,
    status |-> 0]}

\* accel_op_params_t values; the buffers carry the fields submit reads
Buffers ==
  {[dev_addr |-> HAL_ACCEL_MEM_BASE, size |-> 1024],
   [dev_addr |-> HAL_ACCEL_MEM_BASE + 1024, size |-> 512]}

OpParams ==
  [op_type : {ACCEL_OP_NONE, ACCEL_OP_MATMUL, ACCEL_OP_CONV2D},
   input : Buffers, output : Buffers, flags : {0}]
  \cup [op_type : {ACCEL_OP_MATMUL},
        input : {[dev_addr |-> HAL_ACCEL_MEM_BASE, size |-> 1024]},
        output : {[dev_addr |-> HAL_ACCEL_MEM_BASE + 1024, size |-> 512]},
        flags : {5}]

\* sizes given to accel_alloc_buffer: zero, the size of the driver tests,
\* one that is not a multiple of the alignment, the largest uint32_t
DrvSizes == {0, TestBufferSize, HAL_ACCEL_MEM_SIZE - 100, UINT32_MAX}

\* accel_config_t values: the one of test_basic_config
TestConfigs ==
  {[flags |-> ACCEL_CONFIG_ENABLE_DMA + ACCEL_CONFIG_SYNC_MODE,
    num_channels |-> 2, max_transfer |-> 16777216, timeout_ms |-> 5000]}

\* the configurations of test_basic_config and test_config_reset, and one
\* that no device could honour (an undefined flag bit, no channel, no
\* transfer, no timeout)
CfgValues ==
  TestConfigs \cup
  {[flags |-> ACCEL_CONFIG_HIGH_PRIORITY, num_channels |-> 4,
    max_transfer |-> 33554432, timeout_ms |-> 10000],
   [flags |-> 8, num_channels |-> 0, max_transfer |-> 1, timeout_ms |-> 0]}

\* accel_wait_complete(timeout_ms): "0 for infinite" (Runtime::SubmitAndWait)
\* and the 1000 of the driver tests
TimeoutArgs == {0, 1000}

\* status words with READY next to ERROR and BUSY
OpsStatusValues ==
  {0, HAL_STATUS_READY, HAL_STATUS_BUSY, HAL_STATUS_READY + HAL_STATUS_BUSY,
   HAL_STATUS_READY + HAL_STATUS_ERROR,
   HAL_STATUS_READY + HAL_STATUS_BUSY + HAL_STATUS_ERROR}

\* operations submitted next to accel_wait_complete
OpsParams ==
  {p \in OpParams : p.input.size = 1024 /\ p.output.size = 512}

\* operations built from the buffers of the session, as the tests and the
\* runtime build them: the input is the buffer at the base of the window,
\* the output the buffer behind it
SessParams ==
  {[op_type |-> t, input |-> i, output |-> o, flags |-> 0] :
     t \in {ACCEL_OP_NONE, ACCEL_OP_MATMUL},
     i \in {b \in buffers : b.dev_addr = HAL_ACCEL_MEM_BASE},
     o \in {b \in buffers :
              b.dev_addr = HAL_ACCEL_MEM_BASE + TestBufferSize}}

\* an accel_op_params_t of zeros (test_error_handling)
ZeroParams ==
  [op_type |-> ACCEL_OP_NONE, input |-> [dev_addr |-> 0, size |-> 0],
   output |-> [dev_addr |-> 0, size |-> 0], flags |-> 0]

NoBuffer == [host_addr |-> NULL, dev_addr |-> 0, size |-> 0]

\* a descriptor left over from a session that has been closed
OldBuffer ==
  [host_addr |-> PageSize, dev_addr |-> HAL_ACCEL_MEM_BASE,
   size |-> TestBufferSize]

NoXlat == [vaddr |-> NULL, phys |-> 0, null |-> TRUE]
NoCall == [fn |-> "none", stage |-> "none", ir |-> ZeroIR, next |-> ZeroIR]
NoRet == [fn |-> "none", val |-> "none"]
NoArg == [none |-> TRUE]
\* a Buffer object that does not exist; buffer_ == nullptr is NoBuffer
NoObject == [alive |-> FALSE, buffer_ |-> NoBuffer]
\* no Runtime method has been entered yet
NoRtCall == [method |-> "none", stage |-> "returned", calls |-> << >>]

\* the two contexts of test_hal_init_multiple and the heap objects that
\* hal_mem_init can hand to them
Contexts == 1..2
MemCtxs == 1..2
NoContext ==
  [live |-> FALSE, status |-> 0, mem_ctx |-> NULL, accel_memory_base |-> NULL]
NoMemCtx == [live |-> FALSE, blocks |-> << >>]

\* ------------------------------------------------------------------------
\* Initial state: no context has been created, g_ctx is zero
\* ------------------------------------------------------------------------
Init ==
  /\ ctx_live = FALSE
  /\ accel_memory_base = NULL
  /\ mem_ctx = FALSE
  /\ blocks = << >>
  /\ live = EmptyBag
  /\ oversize = 0
  /\ xlat = NoXlat
  /\ fragPc = -1
  /\ fragPtrs = << >>
  /\ status = 0
  /\ mapped_memory = ZeroIR
  /\ pc = "idle"
  /\ call = NoCall
  /\ retries = 0
  /\ polls = 0
  /\ returned = NoRet
  /\ regs_at_call = ZeroIR
  /\ g_ctx = ZeroSession
  /\ inflight = FALSE
  /\ released = << >>
  /\ hal_trace = << >>
  /\ writes = << >>
  /\ call_arg = NoArg
  /\ buffers = {}
  /\ e2ePc = 0
  /\ e2eLog = << >>
  /\ prev_dirty = FALSE
  /\ runtimes = [r \in 1..MaxRuntimes |-> FALSE]
  /\ bufobjs = [o \in 1..MaxBufObjs |-> NoObject]
  /\ dangling = FALSE
  /\ rt_call = NoRtCall
  /\ init_log = << >>
  /\ contexts = [c \in Contexts |-> NoContext]
  /\ mem_ctxs = [m \in MemCtxs |-> NoMemCtx]
  /\ ctx_arg = 0
  /\ kept = {}

\* ------------------------------------------------------------------------
\* hal_base.c
\* ------------------------------------------------------------------------
\* The steps of hal_init that can fail: malloc of the context, open (a NULL
\* or non-existent path fails here), mmap of the register space, mmap of
\* the accelerator memory, and the two mallocs of hal_mem_init.
InitFailures ==
  {"malloc", "open", "mmap_regs", "mmap_mem", "malloc_mem_ctx", "malloc_block"}

acq(what) == [op |-> "acquire", what |-> what]
rel(what) == [op |-> "release", what |-> what]

\* hal_init_log whose unwinding after a failed hal_mem_init forgets the
\* accelerator memory mapping
hal_init_log_leak(fail) ==
  CASE fail = "malloc" -> << >>
    [] fail = "open" -> << acq("ctx"), rel("ctx") >>
    [] fail = "mmap_regs" ->
         << acq("ctx"), acq("fd"), rel("fd"), rel("ctx") >>
    [] fail = "mmap_mem" ->
         << acq("ctx"), acq("fd"), acq("mapped_memory"),
            rel("mapped_memory"), rel("fd"), rel("ctx") >>
    [] fail = "malloc_mem_ctx" ->
         << acq("ctx"), acq("fd"), acq("mapped_memory"),
            acq("accel_memory_base"),
            rel("mapped_memory"), rel("fd"), rel("ctx") >>
    [] fail = "malloc_block" ->
         << acq("ctx"), acq("fd"), acq("mapped_memory"),
            acq("accel_memory_base"), acq("mem_ctx"), rel("mem_ctx"),
            rel("mapped_memory"), rel("fd"), rel("ctx") >>
    [] OTHER ->
         << acq("ctx"), acq("fd"), acq("mapped_memory"),
            acq("accel_memory_base"), acq("mem_ctx"), acq("block") >>

\* what hal_init (hal_mem_init included) acquires and releases, in the
\* order of its statements, when step fail fails ("none": no step fails)
hal_init_log(fail) ==
  CASE fail = "malloc" -> << >>
    [] fail = "open" -> << acq("ctx"), rel("ctx") >>
    [] fail = "mmap_regs" ->
         << acq("ctx"), acq("fd"), rel("fd"), rel("ctx") >>
    [] fail = "mmap_mem" ->
         << acq("ctx"), acq("fd"), acq("mapped_memory"),
            rel("mapped_memory"), rel("fd"), rel("ctx") >>
    [] fail = "malloc_mem_ctx" ->
         << acq("ctx"), acq("fd"), acq("mapped_memory"),
            acq("accel_memory_base"),
            rel("accel_memory_base"), rel("mapped_memory"), rel("fd"),
            rel("ctx") >>
    [] fail = "malloc_block" ->
         << acq("ctx"), acq("fd"), acq("mapped_memory"),
            acq("accel_memory_base"), acq("mem_ctx"), rel("mem_ctx"),
            rel("accel_memory_base"), rel("mapped_memory"), rel("fd"),
            rel("ctx") >>
    [] OTHER ->
         << acq("ctx"), acq("fd"), acq("mapped_memory"),
            acq("accel_memory_base"), acq("mem_ctx"), acq("block") >>

\* hal_init that leaves COMPLETE set next to READY
hal_init_complete(base, reset) ==
  /\ ctx_live' = TRUE
  /\ accel_memory_base' = base
  /\ mem_ctx' = TRUE
  /\ blocks' = hal_mem_init(base, HAL_ACCEL_MEM_SIZE)
  /\ status' = HAL_STATUS_READY + HAL_STATUS_COMPLETE
  /\ mapped_memory' = reset
  /\ live' = EmptyBag
  /\ oversize' = 0
  /\ fragPc' = 0
  /\ fragPtrs' = << >>
  /\ xlat' = NoXlat
  /\ released' = << >>
  /\ init_log' = hal_init_log("none")
  /\ UNCHANGED twoVars

\* the context a successful hal_init(device_path) returns: the accelerator
\* window is mapped at base, the register window holds reset
hal_init(base, reset) ==
  /\ ctx_live' = TRUE
  /\ accel_memory_base' = base
  /\ mem_ctx' = TRUE
  /\ blocks' = hal_mem_init(base, HAL_ACCEL_MEM_SIZE)
  /\ status' = HAL_STATUS_READY
  /\ mapped_memory' = reset
  /\ live' = EmptyBag
  /\ oversize' = 0
  /\ fragPc' = 0
  /\ fragPtrs' = << >>
  /\ xlat' = NoXlat
  /\ released' = << >>
  /\ init_log' = hal_init_log("none")
  /\ UNCHANGED twoVars

\* what hal_cleanup releases, in the order of its statements
CleanupOrder == <<"mem_ctx", "mapped_memory", "accel_memory_base", "fd", "ctx">>

\* hal_cleanup(ctx) on the live context
hal_cleanup ==
  /\ ctx_live' = FALSE
  /\ accel_memory_base' = NULL
  /\ mem_ctx' = FALSE
  /\ blocks' = << >>
  /\ status' = 0
  /\ mapped_memory' = ZeroIR
  /\ live' = EmptyBag
  /\ oversize' = 0
  /\ fragPc' = -1
  /\ fragPtrs' = << >>
  /\ xlat' = NoXlat
  /\ released' = released \o CleanupOrder
  /\ UNCHANGED <<init_log, twoVars>>

\* hal_init called directly (the HAL tests); a failing hal_init returns
\* NULL and leaves no context
HalInit(base, reset) ==
  /\ pc = "idle"
  /\ UNCHANGED rtVars
  /\ ~ctx_live
  /\ hal_init(base, reset)
  /\ returned' = [fn |-> "hal_init", val |-> TRUE]
  /\ UNCHANGED <<pc, call, retries, polls, regs_at_call, drvVars>>

\* a hal_init in which step fail fails: NULL is returned, and no field of
\* a context that exists is touched
HalInitFails(fail) ==
  /\ pc = "idle"
  /\ UNCHANGED rtVars
  /\ init_log' = hal_init_log(fail)
  /\ returned' = [fn |-> "hal_init", val |-> FALSE]
  /\ UNCHANGED <<ctx_live, accel_memory_base, released, twoVars, memVars,
                 xlat, status, mapped_memory, pc, call, retries, polls,
                 regs_at_call, drvVars>>

HalCleanup ==
  /\ pc = "idle"
  /\ UNCHANGED rtVars
  /\ ctx_live
  /\ ~g_ctx.initialized
  /\ hal_cleanup
  /\ returned' = [fn |-> "hal_cleanup", val |-> TRUE]
  /\ UNCHANGED <<pc, call, retries, polls, regs_at_call, drvVars>>

\* hal_cleanup(NULL)
HalCleanupNull ==
  /\ pc = "idle"
  /\ UNCHANGED rtVars
  /\ returned' = [fn |-> "hal_cleanup", val |-> TRUE]
  /\ UNCHANGED <<ctxVars, memVars, xlat, status, mapped_memory, pc, call,
                 retries, polls, regs_at_call, drvVars>>

\* hal_cleanup(ctx) with the pointer of a context that hal_cleanup has
\* already freed.  The fields are read from freed heap memory, so each test
\* of the function may go either way (seesRegs, seesMem, seesFd tell what
\* ctx->mapped_memory, ctx->accel_memory_base and ctx->fd >= 0 read as);
\* ctx->mem_ctx reads as the NULL stored by hal_mem_cleanup or as garbage
\* (seesBlocks); free(ctx) is reached in every case.
HalCleanupClosed(seesBlocks, seesRegs, seesMem, seesFd) ==
  /\ pc = "idle"
  /\ UNCHANGED rtVars
  /\ ~ctx_live
  /\ Len(released) = Len(CleanupOrder)
  /\ released' = released
                   \o (IF seesBlocks THEN <<"mem_ctx">> ELSE << >>)
                   \o (IF seesRegs THEN <<"mapped_memory">> ELSE << >>)
                   \o (IF seesMem THEN <<"accel_memory_base">> ELSE << >>)
                   \o (IF seesFd THEN <<"fd">> ELSE << >>)
                   \o <<"ctx">>
  /\ returned' = [fn |-> "hal_cleanup", val |-> TRUE]
  /\ UNCHANGED <<ctx_live, accel_memory_base, init_log, twoVars, memVars,
                 xlat, status, mapped_memory, pc, call, retries, polls,
                 regs_at_call, drvVars>>

\* ------------------------------------------------------------------------
\* hal_mem.c: the calls
\* ------------------------------------------------------------------------
HalMemCleanup(ctxNull) ==
  /\ pc = "idle"
  /\ UNCHANGED rtVars
  /\ ctxNull \in CtxArgs
  /\ xlat' = NoXlat
  /\ IF ctxNull \/ ~mem_ctx
     THEN UNCHANGED <<ctxVars, memVars>>
     ELSE /\ mem_ctx' = FALSE
          /\ blocks' = << >>
          /\ live' = EmptyBag
          /\ oversize' = 0
          /\ fragPc' = -1
          /\ fragPtrs' = << >>
          /\ UNCHANGED ctxVars
  /\ UNCHANGED <<ioVars, drvVars>>

HalMemAlloc(ctxNull, size, mallocOk) ==
  /\ pc = "idle"
  /\ UNCHANGED rtVars
  /\ ctxNull \in CtxArgs
  /\ LET r == hal_mem_alloc(ctxNull, size, mallocOk)
         f == frag_next("hal_mem_alloc", size, r.ret, mallocOk)
     IN  /\ r.ret # NULL => BagCardinality(live) < MaxLive
         /\ oversize' = IF r.ret # NULL /\ size > HAL_ACCEL_MEM_SIZE
                        THEN oversize + 1 ELSE oversize
         /\ oversize' <= MaxOversize
         /\ blocks' = r.blocks
         /\ live' = IF r.ret = NULL THEN live
                    ELSE live (+) SetToBag({[addr |-> r.ret, size |-> size]})
         /\ fragPc' = IF ctxNull THEN fragPc ELSE f.pc
         /\ fragPtrs' = IF ctxNull THEN fragPtrs ELSE f.ptrs
  /\ xlat' = NoXlat
  /\ UNCHANGED <<ctxVars, mem_ctx, ioVars, drvVars>>

\* the caller gives up the handle h (one of its outstanding allocations at
\* ptr) when it frees ptr; h is NoHandle when it holds none for ptr
NoHandle == [addr |-> NULL, size |-> 0]

HalMemFree(ctxNull, ptr, h) ==
  /\ pc = "idle"
  /\ UNCHANGED rtVars
  /\ ctxNull \in CtxArgs
  /\ \/ h = NoHandle /\ (ctxNull \/ \A r \in BagToSet(live) : r.addr # ptr)
     \/ h # NoHandle /\ ~ctxNull /\ BagIn(h, live) /\ h.addr = ptr
  /\ blocks' = hal_mem_free(ctxNull, ptr)
  /\ live' = IF h = NoHandle THEN live ELSE live (-) SetToBag({h})
  /\ LET f == frag_next("hal_mem_free", ptr, 0, TRUE)
     IN  /\ fragPc' = IF ctxNull THEN fragPc ELSE f.pc
         /\ fragPtrs' = IF ctxNull THEN fragPtrs ELSE f.ptrs
  /\ xlat' = NoXlat
  /\ UNCHANGED <<ctxVars, mem_ctx, oversize, ioVars, drvVars>>

HalVirtToPhys(ctxNull, vaddr) ==
  /\ pc = "idle"
  /\ UNCHANGED rtVars
  /\ ctxNull \in CtxArgs
  /\ xlat' = [vaddr |-> vaddr, phys |-> hal_virt_to_phys(ctxNull, vaddr),
              null |-> ctxNull]
  /\ UNCHANGED <<ctxVars, memVars, ioVars, drvVars>>

\* ------------------------------------------------------------------------
\* The allocator under arbitrary alloc / free sequences
\* ------------------------------------------------------------------------
NextMem ==
  \/ \E base \in MmapBases : HalInit(base, ZeroIR)
  \/ HalCleanup
  \/ \E c \in BOOLEAN : HalMemCleanup(c)
  \/ \E c \in BOOLEAN, size \in AllocSizes, mallocOk \in BOOLEAN :
       HalMemAlloc(c, size, mallocOk)
  \/ \E c \in BOOLEAN, ptr \in ProbePtrs :
       \E h \in {NoHandle} \cup BagToSet(live) : HalMemFree(c, ptr, h)

SpecMem == Init /\ [][NextMem]_vars

\* ------------------------------------------------------------------------
\* The allocator and the address translation under requests of at most
\* one byte more than the window
\* ------------------------------------------------------------------------
WindowSizes == {s \in AllocSizes : s <= HAL_ACCEL_MEM_SIZE + 1}

NextAlloc ==
  \/ \E base \in MmapBases : HalInit(base, ZeroIR)
  \/ HalCleanup
  \/ \E c \in BOOLEAN : HalMemCleanup(c)
  \/ \E c \in BOOLEAN, size \in WindowSizes, mallocOk \in BOOLEAN :
       HalMemAlloc(c, size, mallocOk)
  \/ \E c \in BOOLEAN, ptr \in ProbePtrs :
       \E h \in {NoHandle} \cup BagToSet(live) : HalMemFree(c, ptr, h)
  \/ \E c \in BOOLEAN, vaddr \in ProbePtrs : HalVirtToPhys(c, vaddr)

SpecAlloc == Init /\ [][NextAlloc]_vars

\* ------------------------------------------------------------------------
\* hal_io.c, hal_config.c, accel.c: calls that poll the status.
\*
\* hal_wait_for_ready sleeps between two reads of ctx->status, and
\* hal_set_status may store a new value in between; one step of a polling
\* call therefore runs from one read of the status up to the next read (or
\* to the return of the call).
\* ------------------------------------------------------------------------
ConfigFns ==
  {"hal_configure_lsu", "hal_configure_systolic", "hal_configure_img2col"}

\* hal_set_status(ctx, status), at any time
HalSetStatus(s) ==
  /\ ctx_live
  /\ UNCHANGED rtVars
  /\ status' = s
  /\ inflight' = IF s = status THEN inflight ELSE FALSE
  /\ e2ePc' = IF s = status THEN e2ePc ELSE -1
  /\ e2eLog' = IF s = status THEN e2eLog ELSE << >>
  /\ UNCHANGED <<ctxVars, memVars, xlat, mapped_memory, pc, call, retries,
                 polls, returned, regs_at_call, g_ctx, callMon, buffers,
                 prev_dirty>>

\* hal_set_status(NULL, status)
HalSetStatusNull(s) ==
  /\ pc = "idle"
  /\ returned' = [fn |-> "hal_set_status", val |-> "void"]
  /\ call_arg' = [ctx_null |-> TRUE]
  /\ UNCHANGED <<ctxVars, memVars, xlat, status, mapped_memory, pc, call,
                 retries, polls, regs_at_call, g_ctx, inflight, hal_trace,
                 writes, drvMon, rtVars>>

StatusQueries == {"hal_is_ready", "hal_is_busy", "hal_is_error",
                  "hal_get_status"}

\* hal_is_ready / hal_is_busy / hal_is_error / hal_get_status (ctx)
HalStatusQuery(fn, ctxNull) ==
  /\ pc = "idle"
  /\ ctxNull \in CtxArgs
  /\ returned' =
       [fn |-> fn,
        val |-> IF fn = "hal_is_ready" THEN hal_is_ready(ctxNull)
                ELSE IF fn = "hal_is_busy" THEN hal_is_busy(ctxNull)
                ELSE IF fn = "hal_is_error" THEN hal_is_error(ctxNull)
                ELSE hal_get_status(ctxNull)]
  /\ call_arg' = [ctx_null |-> ctxNull]
  /\ UNCHANGED <<ctxVars, memVars, xlat, status, mapped_memory, pc, call,
                 retries, polls, regs_at_call, g_ctx, inflight, hal_trace,
                 writes, drvMon, rtVars>>

\* entry of a call that goes on to poll: "int retries = 100"
begin_poll(fn, stage, ir, next) ==
  /\ pc' = "poll"
  /\ call' = [fn |-> fn, stage |-> stage, ir |-> ir, next |-> next]
  /\ retries' = MaxRetries
  /\ polls' = 0
  /\ returned' = NoRet
  /\ regs_at_call' = mapped_memory

\* a call that returns val without polling
return_at_once(fn, val) ==
  /\ returned' = [fn |-> fn, val |-> val]
  /\ regs_at_call' = mapped_memory
  /\ polls' = 0
  /\ UNCHANGED <<pc, call, retries>>

\* hal_wait_for_ready(ctx)
HalWaitForReady(ctxNull) ==
  /\ pc = "idle"
  /\ UNCHANGED rtVars
  /\ ctxNull \in CtxArgs
  /\ IF ctxNull
     THEN return_at_once("hal_wait_for_ready", FALSE)
     ELSE begin_poll("hal_wait_for_ready", "wait", ZeroIR, ZeroIR)
  /\ UNCHANGED <<ctxVars, memVars, xlat, status, mapped_memory, drvVars>>

\* hal_configure_lsu / _systolic / _img2col (ctx, config) with a non-NULL
\* config: the record is built, then write_config checks ctx and waits
HalConfigure(fn, ctxNull, ir) ==
  /\ pc = "idle"
  /\ UNCHANGED rtVars
  /\ ctxNull \in CtxArgs
  /\ IF ctxNull
     THEN return_at_once(fn, FALSE)
     ELSE begin_poll(fn, "write_config", ir, ZeroIR)
  /\ UNCHANGED <<ctxVars, memVars, xlat, status, mapped_memory, drvVars>>

\* write_config that copies the record whatever the wait returned
write_config_always(ready, ir) == ir

\* the register window after write_config(ctx, &ir), ready being what its
\* hal_wait_for_ready returned: memcpy(ir, config, sizeof(hal_controller_ir_t))
write_config(ready, ir) == IF ready THEN ir ELSE mapped_memory

\* what follows the return of hal_wait_for_ready with value ready, up to
\* the next read of the status or the return of the call
after_wait(ready) ==
  IF call.fn = "hal_wait_for_ready"
  THEN /\ returned' = [fn |-> call.fn, val |-> ready]
       /\ pc' = "idle"
       /\ UNCHANGED <<mapped_memory, call, inflight, g_ctx, callMon>>
  ELSE IF call.fn \in ConfigFns
  THEN /\ mapped_memory' = write_config(ready, call.ir)
       /\ returned' = [fn |-> call.fn, val |-> ready]
       /\ pc' = "idle"
       /\ UNCHANGED <<call, inflight, g_ctx, callMon>>
  ELSE IF call.fn = "accel_wait_complete"
  THEN \* accel_wait_complete after its hal_wait_for_ready:
       \* convert_hal_status(hal_get_status(g_ctx.hal)) or the timeout
       /\ returned' = [fn |-> call.fn,
                       val |-> IF ready THEN convert_hal_status(status)
                               ELSE "TIMEOUT"]
       /\ g_ctx' = IF ready THEN g_ctx
                   ELSE [g_ctx EXCEPT !.last_error = "Operation timed out"]
       /\ hal_trace' = IF ready THEN Append(hal_trace, "hal_get_status")
                       ELSE hal_trace
       /\ pc' = "idle"
       /\ UNCHANGED <<mapped_memory, call, inflight, writes, call_arg>>
  ELSE IF call.stage = "systolic"
  THEN \* accel_submit_op inside hal_configure_systolic
       IF ready
       THEN /\ mapped_memory' = write_config(ready, call.ir)
            /\ writes' = Append(writes, write_config(ready, call.ir))
            /\ hal_trace' = Append(hal_trace, "hal_configure_lsu")
            /\ call' = [call EXCEPT !.stage = "lsu", !.ir = call.next]
            /\ returned' = returned
            /\ pc' = "poll"
            /\ UNCHANGED <<inflight, g_ctx, call_arg>>
       ELSE /\ returned' = [fn |-> call.fn, val |-> "ERROR"]
            /\ pc' = "idle"
            /\ UNCHANGED <<mapped_memory, call, inflight, g_ctx, callMon>>
  ELSE \* accel_submit_op inside hal_configure_lsu
       /\ mapped_memory' = write_config(ready, call.ir)
       /\ writes' = IF ready THEN Append(writes, write_config(ready, call.ir))
                    ELSE writes
       /\ returned' = [fn |-> call.fn, val |-> IF ready THEN "OK" ELSE "ERROR"]
       /\ inflight' = IF ready THEN TRUE ELSE inflight
       /\ pc' = "idle"
       /\ UNCHANGED <<call, g_ctx, hal_trace, call_arg>>

\* test_operation_submission, run twice in a row.  Of each round: step 1
\* is accel_init, 2..4 the three accel_alloc_buffer(TestBufferSize), 5
\* accel_submit_op(MATMUL, input, output, weights, flags 0), 6
\* accel_wait_complete(1000), 7..9 the three accel_free_buffer, 10
\* accel_cleanup.  e2ePc counts the steps made (11..20 in the second
\* round) and e2eLog holds their results; e2ePc is -1 after any call that
\* is not the next one of the script or that the host could not serve (no
\* device, no heap), and -2 after a step of the script that did not return
\* what the test asserts.
e2e_next(fn, a, val, dev, envOk) ==
  LET off == [pc |-> -1, log |-> << >>]
      k == IF e2ePc < 0 THEN -1 ELSE e2ePc % 10
      first == 10 * (e2ePc \div 10)
      result(ok) ==
        IF ~envOk THEN off
        ELSE IF ok
        THEN [pc |-> e2ePc + 1,
              log |-> Append(e2eLog, [val |-> val, dev |-> dev])]
        ELSE [pc |-> -2, log |-> << >>]
  IN  IF fn = "accel_init" /\ ~a.path_null /\ ~g_ctx.initialized
      THEN IF e2ePc = 10 THEN result(val = "OK")
           ELSE IF ~envOk THEN off
           ELSE IF val = "OK"
           THEN [pc |-> 1, log |-> << [val |-> val, dev |-> dev] >>]
           ELSE [pc |-> -2, log |-> << >>]
      ELSE IF k \in {1, 2, 3} /\ fn = "accel_alloc_buffer"
              /\ a.size = TestBufferSize
      THEN result(val = "BUFFER")
      ELSE IF k = 4 /\ fn = "accel_submit_op" /\ ~a.params_null
              /\ a.params.op_type = ACCEL_OP_MATMUL /\ a.params.flags = 0
              /\ a.params.input.dev_addr = e2eLog[first + 2].dev
              /\ a.params.output.dev_addr = e2eLog[first + 3].dev
      THEN result(val = "OK")
      ELSE IF k = 5 /\ fn = "accel_wait_complete" /\ a.timeout_ms = 1000
      THEN result(val = "OK")
      ELSE IF k \in {6, 7, 8} /\ fn = "accel_free_buffer" /\ ~a.buffer_null
              /\ a.buffer.dev_addr = e2eLog[first + k - 4].dev
      THEN result(TRUE)
      ELSE IF k = 9 /\ fn = "accel_cleanup"
      THEN result(TRUE)
      ELSE off

\* one evaluation of "while (retries-- > 0)" and, when it holds, of the
\* loop body "if (hal_is_ready(ctx)) return true; usleep(1000);"
Poll ==
  /\ pc = "poll"
  /\ UNCHANGED rtVars
  /\ IF retries > 0
     THEN IF hal_is_ready(FALSE)
          THEN /\ after_wait(TRUE)
               /\ IF pc' = "poll"
                  THEN retries' = MaxRetries /\ polls' = 0
                  ELSE retries' = retries - 1 /\ polls' = polls + 1
          ELSE /\ retries' = retries - 1
               /\ polls' = polls + 1
               /\ UNCHANGED <<pc, call, returned, mapped_memory, inflight,
                              g_ctx, callMon>>
     ELSE /\ after_wait(FALSE)
          /\ retries' = retries - 1
          /\ polls' = polls
  /\ IF pc' = "idle" /\ call.fn \in {"accel_submit_op", "accel_wait_complete"}
     THEN LET n == e2e_next(call.fn, call_arg, returned'.val, 0, TRUE)
          IN  e2ePc' = n.pc /\ e2eLog' = n.log
     ELSE UNCHANGED <<e2ePc, e2eLog>>
  /\ UNCHANGED <<ctxVars, memVars, xlat, status, regs_at_call, buffers,
                 prev_dirty>>

\* ------------------------------------------------------------------------
\* accel.c: the driver session
\* ------------------------------------------------------------------------
\* a driver call that returns val without entering the HAL
reject(fn, a, val) ==
  /\ return_at_once(fn, val)
  /\ call_arg' = a
  /\ hal_trace' = << >>
  /\ writes' = << >>
  /\ LET n == e2e_next(fn, a, val, 0, TRUE)
     IN  e2ePc' = n.pc /\ e2eLog' = n.log
  /\ UNCHANGED <<ctxVars, memVars, xlat, status, mapped_memory, g_ctx,
                 inflight, buffers, prev_dirty>>

\* accel_init(device_path): pathNull tells a NULL path, halOk whether
\* hal_init returns a context
accel_init_call(pathNull, halOk, base, reset) ==
  /\ pc = "idle"
  /\ g_ctx.initialized \/ ~ctx_live
  /\ LET a == [path_null |-> pathNull]
         r == accel_init(pathNull, halOk)
         n == e2e_next("accel_init", a, IF r = "INIT" THEN "OK" ELSE r, 0,
                       halOk)
     IN  IF r \in {"INVALID_PARAM", "OK"}
         THEN reject("accel_init", a, r)
         ELSE IF r = "ERROR"
         THEN /\ g_ctx' = [g_ctx EXCEPT
                             !.last_error = "Failed to initialize HAL"]
              /\ return_at_once("accel_init", "ERROR")
              /\ call_arg' = a
              /\ hal_trace' = <<"hal_init">>
              /\ writes' = << >>
              /\ e2ePc' = n.pc /\ e2eLog' = n.log
              /\ \E fail \in InitFailures : init_log' = hal_init_log(fail)
              /\ UNCHANGED <<ctx_live, accel_memory_base, released, twoVars,
                             memVars, xlat, status, mapped_memory, inflight,
                             buffers, prev_dirty>>
         ELSE /\ hal_init(base, reset)
              /\ g_ctx' = [g_ctx EXCEPT !.initialized = TRUE]
              /\ returned' = [fn |-> "accel_init", val |-> "OK"]
              /\ regs_at_call' = reset
              /\ call_arg' = a
              /\ hal_trace' = <<"hal_init">>
              /\ writes' = << >>
              /\ e2ePc' = n.pc /\ e2eLog' = n.log
              /\ buffers' = {}
              /\ UNCHANGED <<pc, call, retries, polls, inflight, prev_dirty>>

AccelInit(pathNull, halOk, base, reset) ==
  accel_init_call(pathNull, halOk, base, reset) /\ UNCHANGED rtVars

\* accel_cleanup()
accel_cleanup_call ==
  /\ pc = "idle"
  /\ IF g_ctx.initialized
     THEN /\ hal_cleanup
          /\ g_ctx' = memset_g_ctx
          /\ inflight' = FALSE
          /\ returned' = [fn |-> "accel_cleanup", val |-> "OK"]
          /\ regs_at_call' = ZeroIR
          /\ call_arg' = NoArg
          /\ hal_trace' = <<"hal_cleanup">>
          /\ writes' = << >>
          /\ buffers' = {}
          /\ prev_dirty' = /\ buffers # {}
                           /\ g_ctx.config # ZeroSession.config
                           /\ g_ctx.last_error # ""
          /\ LET n == e2e_next("accel_cleanup", NoArg, "OK", 0, TRUE)
             IN  e2ePc' = n.pc /\ e2eLog' = n.log
          /\ UNCHANGED <<pc, call, retries, polls>>
     ELSE reject("accel_cleanup", NoArg, "OK")

AccelCleanup ==
  accel_cleanup_call /\ UNCHANGED rtVars

\* accel_alloc_buffer(size): descOk tells whether the malloc of the
\* descriptor succeeds, mallocOk the one inside hal_mem_alloc
accel_alloc_buffer_call(size, descOk, mallocOk) ==
  /\ pc = "idle"
  /\ LET a == [size |-> size]
         r == hal_mem_alloc(FALSE, size, mallocOk)
         buffer == accel_buffer(r.ret, size)
         n == e2e_next("accel_alloc_buffer", a,
                       IF r.ret = NULL THEN "NULL" ELSE "BUFFER",
                       buffer.dev_addr, mallocOk)
     IN  IF ~g_ctx.initialized
         THEN reject("accel_alloc_buffer", a, "NULL")
         ELSE IF ~descOk
         THEN /\ g_ctx' = [g_ctx EXCEPT !.last_error =
                             "Failed to allocate buffer descriptor"]
              /\ return_at_once("accel_alloc_buffer", "NULL")
              /\ call_arg' = a
              /\ hal_trace' = << >>
              /\ writes' = << >>
              /\ e2ePc' = -1 /\ e2eLog' = << >>
              /\ UNCHANGED <<ctxVars, memVars, xlat, status, mapped_memory,
                             inflight, buffers, prev_dirty>>
         ELSE IF r.ret = NULL
         THEN /\ g_ctx' = [g_ctx EXCEPT !.last_error =
                             "Failed to allocate device memory"]
              /\ return_at_once("accel_alloc_buffer", "NULL")
              /\ call_arg' = a
              /\ hal_trace' = <<"hal_mem_alloc">>
              /\ writes' = << >>
              /\ blocks' = r.blocks
              /\ fragPc' = -1 /\ fragPtrs' = << >>
              /\ xlat' = NoXlat
              /\ e2ePc' = n.pc /\ e2eLog' = n.log
              /\ UNCHANGED <<ctxVars, mem_ctx, live, oversize, status,
                             mapped_memory, inflight, buffers, prev_dirty>>
         ELSE /\ return_at_once("accel_alloc_buffer", "BUFFER")
              /\ call_arg' = a
              /\ hal_trace' = <<"hal_mem_alloc", "hal_virt_to_phys">>
              /\ writes' = << >>
              /\ blocks' = r.blocks
              /\ live' = live (+) SetToBag({[addr |-> r.ret, size |-> size]})
              /\ fragPc' = -1 /\ fragPtrs' = << >>
              /\ xlat' = [vaddr |-> r.ret, phys |-> buffer.dev_addr,
                          null |-> FALSE]
              /\ buffers' = buffers \cup {buffer}
              /\ e2ePc' = n.pc /\ e2eLog' = n.log
              /\ UNCHANGED <<ctxVars, mem_ctx, oversize, status,
                             mapped_memory, g_ctx, inflight, prev_dirty>>

AccelAllocBuffer(size, descOk, mallocOk) ==
  accel_alloc_buffer_call(size, descOk, mallocOk) /\ UNCHANGED rtVars

\* accel_free_buffer(buffer), whatever descriptor it is given: bufNull
\* tells a NULL buffer
accel_free_buffer_any(bufNull, buffer) ==
  /\ pc = "idle"
  /\ LET a == [buffer_null |-> bufNull, buffer |-> buffer]
         h == [addr |-> buffer.host_addr, size |-> buffer.size]
         n == e2e_next("accel_free_buffer", a, "void", 0, TRUE)
     IN  IF bufNull \/ ~g_ctx.initialized
         THEN reject("accel_free_buffer", a, "void")
         ELSE /\ return_at_once("accel_free_buffer", "void")
              /\ call_arg' = a
              /\ hal_trace' = IF buffer.host_addr # NULL
                              THEN <<"hal_mem_free">> ELSE << >>
              /\ writes' = << >>
              /\ blocks' = hal_mem_free(FALSE, buffer.host_addr)
              /\ live' = IF BagIn(h, live) THEN live (-) SetToBag({h})
                         ELSE live
              /\ fragPc' = -1 /\ fragPtrs' = << >>
              /\ xlat' = NoXlat
              /\ buffers' = buffers \ {buffer}
              /\ e2ePc' = n.pc /\ e2eLog' = n.log
              /\ UNCHANGED <<ctxVars, mem_ctx, oversize, status,
                             mapped_memory, g_ctx, inflight, prev_dirty>>

\* accel_free_buffer(buffer) by a caller that hands in a descriptor of the
\* running session or, while there is no session, one left over from a
\* closed session
accel_free_buffer_call(bufNull, buffer) ==
  /\ \/ bufNull
     \/ buffer \in buffers
     \/ ~g_ctx.initialized /\ buffer = OldBuffer
  /\ accel_free_buffer_any(bufNull, buffer)

AccelFreeBuffer(bufNull, buffer) ==
  accel_free_buffer_call(bufNull, buffer) /\ UNCHANGED rtVars

\* a driver call that goes on to poll
enter_poll(fn, a, stage, ir, next, hal_fn) ==
  /\ begin_poll(fn, stage, ir, next)
  /\ call_arg' = a
  /\ hal_trace' = <<hal_fn>>
  /\ writes' = << >>
  /\ UNCHANGED <<ctxVars, memVars, xlat, status, mapped_memory, g_ctx,
                 inflight, drvMon>>

\* accel_submit_op(params); paramsNull tells a NULL params
accel_submit_op_call(paramsNull, params) ==
  /\ pc = "idle"
  /\ LET a == [params_null |-> paramsNull, params |-> params]
     IN  IF ~g_ctx.initialized
         THEN reject("accel_submit_op", a, "NOT_INITIALIZED")
         ELSE IF paramsNull
         THEN reject("accel_submit_op", a, "INVALID_PARAM")
         ELSE IF params.op_type = ACCEL_OP_MATMUL
         THEN enter_poll("accel_submit_op", a, "systolic",
                ir_systolic(systolic_cfg(HAL_OP_MATMUL, params.flags)),
                ir_lsu(lsu_cfg(params)), "hal_configure_systolic")
         ELSE IF params.op_type = ACCEL_OP_CONV2D
         THEN enter_poll("accel_submit_op", a, "systolic",
                ir_systolic(systolic_cfg(HAL_OP_CONV, params.flags)),
                ir_lsu(lsu_cfg(params)), "hal_configure_systolic")
         ELSE reject("accel_submit_op", a, "INVALID_PARAM")

AccelSubmitOp(paramsNull, params) ==
  accel_submit_op_call(paramsNull, params) /\ UNCHANGED rtVars

\* accel_wait_complete(timeout_ms)
accel_wait_complete_call(timeout_ms) ==
  /\ pc = "idle"
  /\ LET a == [timeout_ms |-> timeout_ms]
     IN  IF ~g_ctx.initialized
         THEN reject("accel_wait_complete", a, "NOT_INITIALIZED")
         ELSE enter_poll("accel_wait_complete", a, "wait", ZeroIR, ZeroIR,
                         "hal_wait_for_ready")

AccelWaitComplete(timeout_ms) ==
  accel_wait_complete_call(timeout_ms) /\ UNCHANGED rtVars

\* accel_configure(config); configNull tells a NULL config
accel_configure_call(configNull, config) ==
  /\ pc = "idle"
  /\ LET a == [config_null |-> configNull, config |-> config]
         r == accel_configure(configNull, config)
     IN  /\ return_at_once("accel_configure", r.ret)
         /\ g_ctx' = [g_ctx EXCEPT !.config = r.config]
         /\ call_arg' = a
  /\ hal_trace' = << >>
  /\ writes' = << >>
  /\ e2ePc' = -1 /\ e2eLog' = << >>
  /\ UNCHANGED <<ctxVars, memVars, xlat, status, mapped_memory, inflight,
                 buffers, prev_dirty>>

AccelConfigure(configNull, config) ==
  accel_configure_call(configNull, config) /\ UNCHANGED rtVars

\* accel_get_config(config); *config holds before when the call is made
accel_get_config_call(configNull, before) ==
  /\ pc = "idle"
  /\ LET r == accel_get_config(configNull, before)
     IN  /\ return_at_once("accel_get_config", r.ret)
         /\ call_arg' = [config_null |-> configNull, config |-> r.out]
  /\ hal_trace' = << >>
  /\ writes' = << >>
  /\ e2ePc' = -1 /\ e2eLog' = << >>
  /\ UNCHANGED <<ctxVars, memVars, xlat, status, mapped_memory, g_ctx,
                 inflight, buffers, prev_dirty>>

AccelGetConfig(configNull, before) ==
  accel_get_config_call(configNull, before) /\ UNCHANGED rtVars

\* accel_reset_config()
accel_reset_config_call ==
  /\ pc = "idle"
  /\ return_at_once("accel_reset_config", accel_reset_config.ret)
  /\ g_ctx' = [g_ctx EXCEPT !.config = accel_reset_config.config]
  /\ call_arg' = NoArg
  /\ hal_trace' = << >>
  /\ writes' = << >>
  /\ e2ePc' = -1 /\ e2eLog' = << >>
  /\ UNCHANGED <<ctxVars, memVars, xlat, status, mapped_memory, inflight,
                 buffers, prev_dirty>>

AccelResetConfig ==
  accel_reset_config_call /\ UNCHANGED rtVars

\* ------------------------------------------------------------------------
\* The HAL status / wait / register programming calls on one context
\* ------------------------------------------------------------------------
NextIO ==
  \/ \E reset \in RegResets : HalInit(PageSize, reset)
  \/ HalCleanup
  \/ \E s \in StatusValues : HalSetStatus(s)
  \/ \E c \in BOOLEAN : HalWaitForReady(c)
  \/ \E c \in BOOLEAN, cfg \in LsuConfigs :
       HalConfigure("hal_configure_lsu", c, ir_lsu(cfg))
  \/ \E c \in BOOLEAN, cfg \in SystolicConfigs :
       HalConfigure("hal_configure_systolic", c, ir_systolic(cfg))
  \/ \E c \in BOOLEAN, cfg \in Img2colConfigs :
       HalConfigure("hal_configure_img2col", c, ir_img2col(cfg))
  \/ Poll

SpecIO == Init /\ [][NextIO]_vars

\* a polling call is never abandoned by its thread
FairIO == SpecIO /\ WF_vars(Poll)

\* ------------------------------------------------------------------------
\* The driver session: init, submit, cleanup, and the status changing
\* underneath
\* ------------------------------------------------------------------------
NextDrv ==
  \/ \E pathNull, halOk \in BOOLEAN :
       AccelInit(pathNull, halOk, PageSize, ZeroIR)
  \/ AccelCleanup
  \/ \E s \in StatusValues : HalSetStatus(s)
  \/ AccelSubmitOp(TRUE, CHOOSE p \in OpParams : TRUE)
  \/ \E params \in OpParams : AccelSubmitOp(FALSE, params)
  \/ Poll

SpecDrv == Init /\ [][NextDrv]_vars

\* ------------------------------------------------------------------------
\* Submission and completion wait, with the status changing underneath
\* ------------------------------------------------------------------------
NextOps ==
  \/ \E pathNull, halOk \in BOOLEAN :
       AccelInit(pathNull, halOk, PageSize, ZeroIR)
  \/ AccelCleanup
  \/ \E s \in OpsStatusValues : HalSetStatus(s)
  \/ \E params \in OpsParams : AccelSubmitOp(FALSE, params)
  \/ \E t \in TimeoutArgs : AccelWaitComplete(t)
  \/ Poll

SpecOps == Init /\ [][NextOps]_vars

\* ------------------------------------------------------------------------
\* The driver facade: sessions, buffers, configuration, operations
\* ------------------------------------------------------------------------
NextSess ==
  \/ \E pathNull, halOk \in BOOLEAN :
       AccelInit(pathNull, halOk, PageSize, ZeroIR)
  \/ AccelCleanup
  \/ \E size \in DrvSizes, descOk, mallocOk \in BOOLEAN :
       AccelAllocBuffer(size, descOk, mallocOk)
  \/ AccelFreeBuffer(TRUE, NoBuffer)
  \/ \E buffer \in buffers \cup {OldBuffer} : AccelFreeBuffer(FALSE, buffer)
  \/ AccelSubmitOp(TRUE, ZeroParams)
  \/ \E params \in SessParams \cup {ZeroParams} : AccelSubmitOp(FALSE, params)
  \/ \E t \in TimeoutArgs : AccelWaitComplete(t)
  \/ \E configNull \in BOOLEAN, config \in TestConfigs :
       AccelConfigure(configNull, config)
  \/ \E configNull \in BOOLEAN : AccelGetConfig(configNull, ZeroSession.config)
  \/ AccelResetConfig
  \/ Poll

SpecSess == Init /\ [][NextSess]_vars

\* ------------------------------------------------------------------------
\* Opening and closing: contexts, sessions, and pointers kept after close
\* ------------------------------------------------------------------------
NextLife ==
  \/ \E base \in MmapBases, reset \in RegResets : HalInit(base, reset)
  \/ \E fail \in InitFailures : HalInitFails(fail)
  \/ HalCleanup
  \/ HalCleanupNull
  \/ \E seesBlocks, seesRegs, seesMem, seesFd \in BOOLEAN :
       HalCleanupClosed(seesBlocks, seesRegs, seesMem, seesFd)
  \/ \E pathNull, halOk \in BOOLEAN :
       AccelInit(pathNull, halOk, PageSize, ZeroIR)
  \/ AccelCleanup
  \/ \E s \in StatusValues : HalSetStatus(s)

SpecLife == Init /\ [][NextLife]_vars

\* ========================================================================
\* Properties of the allocator (hal_mem.c)
\* ========================================================================
\* size rounded up to the alignment quantum, as a number (no wrap-around)
RoundUp(size) == ((size + HAL_MEM_ALIGN - 1) \div HAL_MEM_ALIGN) * HAL_MEM_ALIGN

WindowEnd == accel_memory_base + HAL_ACCEL_MEM_SIZE

FreeBlockAt(ptr) ==
  \E i \in 1..Len(blocks) : blocks[i].addr = ptr /\ ~blocks[i].used

BlockAt(ptr) == \E i \in 1..Len(blocks) : blocks[i].addr = ptr

\* C1: once every address that hal_mem_alloc returned has been freed,
\* hal_mem_available() equals HAL_ACCEL_MEM_SIZE.
C1_AvailableRestored ==
  (ctx_live /\ mem_ctx /\ live = EmptyBag)
    => hal_mem_available(FALSE) = HAL_ACCEL_MEM_SIZE

\* C2: the outstanding addresses are pairwise distinct and the spans
\* [address, address + requested size) of any two of them do not overlap.
C2_LiveDisjoint ==
  /\ \A r \in BagToSet(live) : CopiesIn(r, live) = 1
  /\ \A r1, r2 \in BagToSet(live) :
       r1 # r2 => /\ r1.addr # r2.addr
                  /\ \/ r1.addr + r1.size <= r2.addr
                     \/ r2.addr + r2.size <= r1.addr

\* C3: every address returned by hal_mem_alloc(size) is a multiple of 64
\* bytes from the window base and [address, address + size) lies inside
\* the window.
C3_AlignedInWindow ==
  \A r \in BagToSet(live) :
    /\ (r.addr - accel_memory_base) % HAL_MEM_ALIGN = 0
    /\ accel_memory_base % HAL_MEM_ALIGN = 0
    /\ accel_memory_base <= r.addr
    /\ r.addr + r.size <= WindowEnd

\* C4: hal_mem_alloc returns NULL (nothing becomes outstanding) and leaves
\* the block list and hal_mem_available() unchanged when the size is 0,
\* when it exceeds the window size, when no free block is large enough,
\* when the context is NULL and when the allocator has been torn down.
C4_AllocFailsCleanly ==
  [][\A c, m \in BOOLEAN : \A s \in AllocSizes :
       ( /\ HalMemAlloc(c, s, m)
         /\ \/ s = 0
            \/ s > HAL_ACCEL_MEM_SIZE
            \/ c
            \/ ~mem_ctx
            \/ \A i \in 1..Len(blocks) :
                 blocks[i].used \/ blocks[i].size < RoundUp(s) )
       => /\ live' = live
          /\ blocks' = blocks
          /\ hal_mem_available(FALSE)' = hal_mem_available(FALSE)]_vars

\* C5: hal_mem_free changes nothing when given NULL, an address that is
\* not the base of any block, or the base of a block that is already free.
C5_FreeNoOp ==
  [][\A c \in BOOLEAN : \A p \in ProbePtrs :
       \A h \in {NoHandle} \cup BagToSet(live) :
         ( /\ HalMemFree(c, p, h)
           /\ (p = NULL \/ ~BlockAt(p) \/ FreeBlockAt(p)) )
         => /\ blocks' = blocks
            /\ hal_mem_available(FALSE)' = hal_mem_available(FALSE)]_vars

\* C6: hal_virt_to_phys(addr) is HAL_ACCEL_MEM_BASE + (addr - windowBase)
\* for windowBase <= addr < windowBase + windowSize, hence non-zero and
\* inside the device range for every outstanding address; it is 0 for every
\* address outside the window (windowBase + windowSize included), for a
\* NULL context and for a torn-down allocator.
C6_Translate ==
  xlat # NoXlat =>
    IF ~xlat.null /\ mem_ctx
       /\ accel_memory_base <= xlat.vaddr /\ xlat.vaddr < WindowEnd
    THEN /\ xlat.phys = HAL_ACCEL_MEM_BASE + (xlat.vaddr - accel_memory_base)
         /\ xlat.phys # 0
         /\ HAL_ACCEL_MEM_BASE <= xlat.phys
         /\ xlat.phys < HAL_ACCEL_MEM_BASE + HAL_ACCEL_MEM_SIZE
    ELSE /\ xlat.phys = 0
         /\ \A r \in BagToSet(live) : xlat.null \/ r.addr # xlat.vaddr

\* an outstanding address other than the window base has been translated
C6_Witness ==
  /\ xlat # NoXlat /\ ~xlat.null
  /\ \E r \in BagToSet(live) : r.addr = xlat.vaddr /\ r.addr > accel_memory_base

WaitReturned(val) == [fn |-> "hal_wait_for_ready", val |-> val]

\* a step of Poll made inside a direct call of hal_wait_for_ready
WaitStep ==
  pc = "poll" /\ call.fn = "hal_wait_for_ready" /\ retries' # retries

\* C8: hal_wait_for_ready reads the status at most 100 times, returns true
\* at the first poll that finds READY set, returns false after the 100th
\* poll when none did (at once for a NULL context), and always returns.
C8_WaitBounded ==
  /\ [](polls <= MaxRetries)
  /\ [](pc = "poll" => retries >= 0 /\ polls + retries = MaxRetries)
  /\ [](returned = WaitReturned(FALSE) => polls \in {0, MaxRetries})
  /\ [][WaitStep =>
          IF retries > 0 /\ bit_test(status, HAL_STATUS_READY)
          THEN returned' = WaitReturned(TRUE) /\ pc' = "idle"
               /\ polls' = polls + 1
          ELSE IF retries > 0
          THEN pc' = "poll" /\ returned' = NoRet /\ polls' = polls + 1
          ELSE returned' = WaitReturned(FALSE) /\ pc' = "idle"
               /\ polls' = MaxRetries]_vars
  /\ (pc = "poll") ~> (pc = "idle")

\* the wait has given up after its whole budget
C8_Witness == returned = WaitReturned(FALSE) /\ polls = MaxRetries

\* C9: the configure calls write the register window only in a step whose
\* poll finds READY set, and a call that returns failure leaves the window
\* as it was when the call began.
C9_WriteOnlyWhenReady ==
  [][/\ (mapped_memory' # mapped_memory /\ ctx_live /\ ctx_live')
          => /\ pc = "poll" /\ retries > 0
             /\ bit_test(status, HAL_STATUS_READY)
             /\ call.fn \in ConfigFns
             /\ mapped_memory' = call.ir
     /\ (pc = "poll" /\ call.fn \in ConfigFns /\ retries = 0
         /\ retries' # retries)
          => returned' = [fn |-> call.fn, val |-> FALSE]
     /\ (returned'.fn \in ConfigFns /\ returned'.val = FALSE)
          => mapped_memory' = regs_at_call']_vars

\* a configure call has timed out on a window that held something
C9_Witness ==
  /\ returned.fn \in ConfigFns /\ returned.val = FALSE
  /\ polls = MaxRetries
  /\ mapped_memory # ZeroIR

\* C10: while a submitted operation is in flight (accel_submit_op returned
\* OK and the status has not changed since) the register window is not
\* written again.
C10_NoWriteWhileInFlight ==
  [][(inflight /\ g_ctx.initialized /\ g_ctx'.initialized)
       => mapped_memory' = mapped_memory]_vars

\* ========================================================================
\* Properties of the driver facade (accel.c, accel_config.c)
\* ========================================================================
\* the step ends a driver call fn that returned val at once, entered no HAL
\* function, read no status, and changed neither the HAL context, the
\* allocator, the register window nor the session
Rejected(fn, val) ==
  /\ returned'.fn = fn /\ returned'.val = val
  /\ hal_trace' = << >> /\ writes' = << >>
  /\ polls' = 0 /\ pc' = "idle"
  /\ UNCHANGED <<ctxVars, memVars, xlat, status, mapped_memory, g_ctx,
                 inflight, buffers>>

\* C11: while no session is initialized, accel_submit_op,
\* accel_wait_complete, accel_configure, accel_get_config and
\* accel_reset_config return NOT_INITIALIZED whatever their argument,
\* accel_alloc_buffer returns NULL, accel_free_buffer does nothing, and none
\* of them enters the HAL or changes the driver state.
C11_NotInitialized ==
  [][~g_ctx.initialized =>
       /\ \A pn \in BOOLEAN :
            AccelSubmitOp(pn, ZeroParams)
              => Rejected("accel_submit_op", "NOT_INITIALIZED")
       /\ \A t \in TimeoutArgs :
            AccelWaitComplete(t)
              => Rejected("accel_wait_complete", "NOT_INITIALIZED")
       /\ \A cn \in BOOLEAN : \A c \in TestConfigs :
            AccelConfigure(cn, c)
              => Rejected("accel_configure", "NOT_INITIALIZED")
       /\ \A cn \in BOOLEAN :
            AccelGetConfig(cn, ZeroSession.config)
              => /\ Rejected("accel_get_config", "NOT_INITIALIZED")
                 /\ call_arg'.config = ZeroSession.config
       /\ AccelResetConfig => Rejected("accel_reset_config", "NOT_INITIALIZED")
       /\ \A size \in DrvSizes : \A d, m \in BOOLEAN :
            AccelAllocBuffer(size, d, m)
              => Rejected("accel_alloc_buffer", "NULL")
       /\ \A bn \in BOOLEAN :
            AccelFreeBuffer(bn, OldBuffer)
              => Rejected("accel_free_buffer", "void")]_vars

\* accel_get_config has been refused after a session was closed
C11_Witness ==
  /\ ~g_ctx.initialized
  /\ Len(released) = Len(CleanupOrder)
  /\ returned.fn = "accel_get_config" /\ returned.val = "NOT_INITIALIZED"

\* C12: on an initialized session accel_submit_op(NULL), accel_submit_op
\* with an operation kind other than MATMUL and CONV2D, accel_configure(NULL)
\* and accel_get_config(NULL) return INVALID_PARAM without writing the
\* register window, without polling the status and without changing the
\* stored configuration.
C12_InvalidParam ==
  [][g_ctx.initialized =>
       /\ AccelSubmitOp(TRUE, ZeroParams)
            => Rejected("accel_submit_op", "INVALID_PARAM")
       /\ \A p \in SessParams \cup {ZeroParams} :
            ( /\ p.op_type \notin {ACCEL_OP_MATMUL, ACCEL_OP_CONV2D}
              /\ AccelSubmitOp(FALSE, p) )
              => Rejected("accel_submit_op", "INVALID_PARAM")
       /\ \A c \in TestConfigs :
            AccelConfigure(TRUE, c)
              => Rejected("accel_configure", "INVALID_PARAM")
       /\ AccelGetConfig(TRUE, ZeroSession.config)
            => Rejected("accel_get_config", "INVALID_PARAM")]_vars

\* accel_configure(NULL) has been refused while a configuration was stored
C12_Witness ==
  /\ g_ctx.initialized
  /\ g_ctx.config \in TestConfigs
  /\ returned.fn = "accel_configure" /\ returned.val = "INVALID_PARAM"

\* the systolic record of an operation: opcode in word 1, control in word 9
IsSystolicRecord(ir, opcode, control) ==
  /\ ir.opcode = 0 /\ ir.src_addr = 0 /\ ir.dst_addr = 0 /\ ir.length = 0
  /\ ir.control = 0 /\ ir.status = 0
  /\ ir.ir_data = << opcode, 0, 0, 0, 0, 0, 0, 0, control, 0 >>

\* the load-store record: src_addr in words 2-3, dst_addr in words 4-5
\* (low word first), length in word 6
IsLsuRecord(ir, src, dst, length) ==
  /\ ir.opcode = 0 /\ ir.src_addr = 0 /\ ir.dst_addr = 0 /\ ir.length = 0
  /\ ir.control = 0 /\ ir.status = 0
  /\ ir.ir_data = << 0, src, 0, dst, 0, length, 0, 0, 0, 0 >>

\* C13: accel_submit_op for MATMUL (CONV2D) on an initialized session stores
\* first a systolic record with opcode 1 (2) and control = params.flags,
\* then a load-store record with src_addr = input.dev_addr, dst_addr =
\* output.dev_addr and length = input.size; it returns OK exactly when both
\* were stored, having entered nothing but the two configure calls; it
\* returns ERROR only after a wait for READY has used up its polls, and
\* then nothing was stored after the failure.
C13_SubmitWrites ==
  (returned.fn = "accel_submit_op" /\ returned.val \in {"OK", "ERROR"}) =>
    LET p == call_arg.params
    IN  /\ Len(writes) <= 2
        /\ (returned.val = "OK") <=> (Len(writes) = 2)
        /\ Len(writes) >= 1 =>
             IsSystolicRecord(writes[1],
               IF p.op_type = ACCEL_OP_MATMUL THEN 1 ELSE 2, p.flags)
        /\ Len(writes) = 2 =>
             /\ p.op_type \in {ACCEL_OP_MATMUL, ACCEL_OP_CONV2D}
             /\ IsLsuRecord(writes[2], p.input.dev_addr, p.output.dev_addr,
                            p.input.size)
             /\ hal_trace = <<"hal_configure_systolic", "hal_configure_lsu">>
        /\ returned.val = "ERROR" =>
             /\ polls = MaxRetries
             /\ Len(hal_trace) = Len(writes) + 1
             /\ mapped_memory = IF Len(writes) = 1 THEN writes[1]
                                ELSE regs_at_call

\* a CONV2D or flagged MATMUL operation has been submitted
C13_Witness ==
  /\ returned.fn = "accel_submit_op" /\ returned.val = "OK"
  /\ Len(writes) = 2
  /\ writes[1].ir_data[9] = 5
  /\ mapped_memory = writes[2]

\* C14: accel_wait_complete on an initialized session returns TIMEOUT, with
\* the last-error text "Operation timed out", exactly when none of its 100
\* polls found READY set; otherwise ERROR if the ERROR bit is set, else BUSY
\* if the BUSY bit is set, else OK.
C14_WaitResult ==
  [][(pc = "poll" /\ call.fn = "accel_wait_complete" /\ pc' = "idle") =>
       /\ returned'.fn = "accel_wait_complete"
       /\ IF retries = 0
          THEN /\ returned'.val = "TIMEOUT"
               /\ polls = MaxRetries
               /\ g_ctx'.last_error = "Operation timed out"
          ELSE /\ status % 2 = 1
               /\ returned'.val =
                    IF (status \div 8) % 2 = 1 THEN "ERROR"
                    ELSE IF (status \div 2) % 2 = 1 THEN "BUSY"
                    ELSE "OK"
               /\ g_ctx' = g_ctx
       /\ returned'.val = "OK" =>
            status % 2 = 1 /\ (status \div 2) % 2 = 0
            /\ (status \div 8) % 2 = 0]_vars

\* READY was found after several polls, together with ERROR and BUSY
C14_Witness ==
  /\ returned.fn = "accel_wait_complete" /\ returned.val = "ERROR"
  /\ polls > 1
  /\ status = HAL_STATUS_READY + HAL_STATUS_BUSY + HAL_STATUS_ERROR

\* C15: accel_wait_complete(0) never returns TIMEOUT.
C15_ZeroWaitsWithoutLimit ==
  ~ ( /\ returned.fn = "accel_wait_complete"
      /\ call_arg.timeout_ms = 0
      /\ returned.val = "TIMEOUT" )

\* C16: accel_init on an initialized session returns OK for any non-NULL
\* path, usable or not, and accel_init(NULL) returns INVALID_PARAM in every
\* state; neither changes the HAL context, the allocator, the buffers, the
\* stored configuration or the last-error text.
C16_InitIdempotent ==
  [][\A pn, ok \in BOOLEAN :
       AccelInit(pn, ok, PageSize, ZeroIR) =>
         /\ pn => Rejected("accel_init", "INVALID_PARAM")
         /\ (~pn /\ g_ctx.initialized) => Rejected("accel_init", "OK")]_vars

\* accel_init has been repeated on a session that holds buffers, a
\* configuration and an error text
C16_Witness ==
  /\ g_ctx.initialized
  /\ returned.fn = "accel_init" /\ returned.val = "OK"
  /\ hal_trace = << >>
  /\ buffers # {} /\ g_ctx.config # ZeroSession.config
  /\ g_ctx.last_error # ""

\* C17: no cleanup releases a resource of a context a second time.
C17_CloseOnce ==
  \A i, j \in 1..Len(released) : released[i] = released[j] => i = j

\* C18: every step of the end-to-end sequence returns what the test asserts,
\* in the first round and in the second, and each step of the second round
\* gives the result (status, device address of the buffer) of the same step
\* of the first.
C18_EndToEndTwice ==
  /\ e2ePc # -2
  /\ \A k \in 1..10 :
       k + 10 <= Len(e2eLog) => e2eLog[k + 10] = e2eLog[k]

\* both rounds have been completed
C18_Witness ==
  /\ e2ePc = 20 /\ Len(e2eLog) = 20
  /\ e2eLog[16].val = "OK" /\ e2eLog[13].val = "BUFFER"

\* last-error texts that are stored only while a session is initialized
SessionErrors ==
  {"Failed to allocate buffer descriptor", "Failed to allocate device memory",
   "Operation timed out"}

\* C19: right after an accel_init that opened a session, the whole window
\* is available and no buffer is outstanding, the stored configuration
\* (what accel_get_config returns) is the zero one, and the last-error text
\* is none of a session.
C19_NoLeak ==
  ( /\ returned.fn = "accel_init" /\ returned.val = "OK"
    /\ hal_trace = <<"hal_init">> ) =>
    /\ hal_mem_available(FALSE) = HAL_ACCEL_MEM_SIZE
    /\ live = EmptyBag /\ buffers = {}
    /\ g_ctx.config = [flags |-> 0, num_channels |-> 0, max_transfer |-> 0,
                       timeout_ms |-> 0]
    /\ accel_get_config(FALSE, DefaultConfig).out # DefaultConfig
    /\ g_ctx.last_error \notin SessionErrors
    /\ ~inflight

\* a session has been opened after one that was closed with buffers
\* outstanding, a configuration stored and an error text set
C19_Witness ==
  /\ returned.fn = "accel_init" /\ returned.val = "OK"
  /\ hal_trace = <<"hal_init">>
  /\ prev_dirty

\* C20: every buffer of the session has a non-NULL host_addr inside the
\* window, dev_addr = HAL_ACCEL_MEM_BASE + (host_addr - windowBase), and the
\* size that was requested; accel_alloc_buffer(0) returns NULL and leaves
\* the allocator unchanged; when no free block can hold the request it
\* returns NULL and stores "Failed to allocate device memory".
C20_BufferFields ==
  /\ [](\A b \in buffers :
          /\ b.host_addr # NULL
          /\ accel_memory_base <= b.host_addr /\ b.host_addr < WindowEnd
          /\ b.dev_addr = HAL_ACCEL_MEM_BASE + (b.host_addr - accel_memory_base)
          /\ b.dev_addr # 0
          /\ BagIn([addr |-> b.host_addr, size |-> b.size], live))
  /\ [][\A size \in DrvSizes : \A d, m \in BOOLEAN :
          (g_ctx.initialized /\ AccelAllocBuffer(size, d, m)) =>
            /\ size = 0 =>
                 /\ returned'.val = "NULL"
                 /\ UNCHANGED <<blocks, live, buffers>>
            /\ ( /\ d
                 /\ \A i \in 1..Len(blocks) :
                      blocks[i].used \/ blocks[i].size < RoundUp(size) ) =>
                 /\ returned'.val = "NULL"
                 /\ g_ctx'.last_error = "Failed to allocate device memory"
                 /\ UNCHANGED <<blocks, live, buffers>>
            /\ returned'.val = "BUFFER" =>
                 \E b \in buffers' \ buffers : b.size = size]_vars

\* the window is used up by four buffers and a fifth has been refused
C20_Witness ==
  /\ returned.fn = "accel_alloc_buffer" /\ returned.val = "NULL"
  /\ call_arg.size = TestBufferSize
  /\ Cardinality(buffers) = 4
  /\ g_ctx.last_error = "Failed to allocate device memory"

\* ========================================================================
\* The configuration block of the session (accel_config.c)
\* ========================================================================
NextCfg ==
  \/ \E pathNull, halOk \in BOOLEAN :
       AccelInit(pathNull, halOk, PageSize, ZeroIR)
  \/ AccelCleanup
  \/ \E configNull \in BOOLEAN, config \in CfgValues :
       AccelConfigure(configNull, config)
  \/ \E configNull \in BOOLEAN, before \in CfgValues \cup {ZeroSession.config} :
       AccelGetConfig(configNull, before)
  \/ AccelResetConfig

SpecCfg == Init /\ [][NextCfg]_vars

\* C21: on an initialized session accel_configure stores the four fields it
\* is given, whatever they are; accel_reset_config stores flags = 1
\* (ENABLE_DMA), num_channels = 1, max_transfer = 0x1000000, timeout_ms =
\* 1000 whatever was stored before; no other call but accel_cleanup changes
\* the stored configuration; and accel_get_config returns OK, leaves the
\* stored configuration alone and hands out its four fields.
C21_ConfigRoundTrip ==
  /\ [][\A config \in CfgValues :
          (g_ctx.initialized /\ AccelConfigure(FALSE, config))
            => /\ returned'.val = "OK"
               /\ g_ctx'.config.flags = config.flags
               /\ g_ctx'.config.num_channels = config.num_channels
               /\ g_ctx'.config.max_transfer = config.max_transfer
               /\ g_ctx'.config.timeout_ms = config.timeout_ms]_vars
  /\ [][(g_ctx.initialized /\ AccelResetConfig)
          => /\ returned'.val = "OK"
             /\ g_ctx'.config.flags = 1
             /\ g_ctx'.config.num_channels = 1
             /\ g_ctx'.config.max_transfer = 16777216
             /\ g_ctx'.config.timeout_ms = 1000]_vars
  /\ [][(g_ctx.initialized /\ g_ctx'.config # g_ctx.config)
          => returned'.fn \in {"accel_configure", "accel_reset_config",
                               "accel_cleanup"}]_vars
  /\ [][\A before \in CfgValues \cup {ZeroSession.config} :
          (g_ctx.initialized /\ AccelGetConfig(FALSE, before))
            => /\ returned'.val = "OK"
               /\ g_ctx' = g_ctx
               /\ call_arg'.config.flags = g_ctx.config.flags
               /\ call_arg'.config.num_channels = g_ctx.config.num_channels
               /\ call_arg'.config.max_transfer = g_ctx.config.max_transfer
               /\ call_arg'.config.timeout_ms = g_ctx.config.timeout_ms]_vars

\* accel_get_config has just handed out a configuration that accel_configure
\* stored and that no device could honour
C21_Witness ==
  /\ g_ctx.initialized
  /\ returned = [fn |-> "accel_get_config", val |-> "OK"]
  /\ call_arg.config.flags = 8
  /\ call_arg.config.num_channels = 0

\* ========================================================================
\* The last-error slot (accel.c, accel_config.c)
\* ========================================================================
FacadeFns ==
  {"accel_init", "accel_alloc_buffer", "accel_submit_op",
   "accel_wait_complete", "accel_configure", "accel_get_config",
   "accel_reset_config"}

\* the facade call that returned last has failed
FacadeFailed ==
  /\ returned.fn \in FacadeFns
  /\ returned.val \notin {"OK", "BUFFER"}

\* C22: after a facade call that failed, accel_get_error returns a text
\* that is not empty and is not one of the texts that describe the
\* failures of the other facade functions.
C22_LastErrorOverwritten ==
  FacadeFailed
    => /\ accel_get_error # ""
       /\ accel_get_error \notin
            UNION {ErrorTexts(fn) : fn \in FacadeFns \ {returned.fn}}

\* ========================================================================
\* The status accessors (hal_io.c)
\* ========================================================================
\* every value of the four low bits of the status word
StatusWords == 0..15

NextStat ==
  \/ \E reset \in RegResets : HalInit(PageSize, reset)
  \/ HalCleanup
  \/ HalMemAlloc(FALSE, small_size, TRUE)
  \/ \E s \in StatusWords : HalSetStatus(s)
  \/ \E s \in StatusWords : HalSetStatusNull(s)
  \/ \E fn \in StatusQueries, c \in BOOLEAN : HalStatusQuery(fn, c)
  \/ HalWaitForReady(TRUE)

SpecStat == Init /\ [][NextStat]_vars

\* hal_set_status leaves these alone: the allocator, the register window,
\* the context itself
BesideStatus ==
  <<ctx_live, accel_memory_base, mem_ctx, blocks, live, mapped_memory>>

\* C26: hal_set_status(ctx, s) stores s and changes neither the allocator
\* nor the register window; afterwards hal_get_status returns the stored
\* word and hal_is_ready / hal_is_busy / hal_is_error return its bit 0 /
\* bit 1 / bit 3; on a NULL context the three tests and hal_wait_for_ready
\* return false, hal_get_status returns 0 and hal_set_status changes
\* nothing.
C26_StatusAccessors ==
  /\ [][\A s \in StatusWords :
          HalSetStatus(s) => (status' = s /\ UNCHANGED BesideStatus)]_vars
  /\ [][\A s \in StatusWords :
          HalSetStatusNull(s) => UNCHANGED <<status, BesideStatus>>]_vars
  /\ [][HalStatusQuery("hal_get_status", FALSE)
          => (returned'.val = status /\ UNCHANGED <<status, BesideStatus>>)
       ]_vars
  /\ [][HalStatusQuery("hal_is_ready", FALSE)
          => returned'.val = (status % 2 = 1)]_vars
  /\ [][HalStatusQuery("hal_is_busy", FALSE)
          => returned'.val = ((status \div 2) % 2 = 1)]_vars
  /\ [][HalStatusQuery("hal_is_error", FALSE)
          => returned'.val = ((status \div 8) % 2 = 1)]_vars
  /\ [][\A fn \in {"hal_is_ready", "hal_is_busy", "hal_is_error"} :
          HalStatusQuery(fn, TRUE) => returned'.val = FALSE]_vars
  /\ [][HalStatusQuery("hal_get_status", TRUE) => returned'.val = 0]_vars
  /\ [][HalWaitForReady(TRUE) => returned'.val = FALSE]_vars

\* hal_is_busy has just answered true on a word that has READY and ERROR
\* set next to BUSY
C26_Witness ==
  /\ ctx_live
  /\ status = 11
  /\ returned = [fn |-> "hal_is_busy", val |-> TRUE]
  /\ call_arg = [ctx_null |-> FALSE]

\* ========================================================================
\* The shape of the block list (hal_mem.c)
\* ========================================================================
\* sum of the sizes of the first n blocks of bl, of all of them (AnyBlock)
\* or of the unused ones (UnusedBlock)
AnyBlock == FALSE
UnusedBlock == TRUE

RECURSIVE SumSizes(_, _, _)
SumSizes(bl, n, unusedOnly) ==
  IF n = 0 THEN 0
  ELSE (IF unusedOnly /\ bl[n].used THEN 0 ELSE bl[n].size)
       + SumSizes(bl, n - 1, unusedOnly)

\* C27: while the allocator is initialized the block list is not empty,
\* its first block begins at the window base, the addresses do not
\* decrease along the list, each block begins where the one before it
\* ends, the last block ends where the window ends, the sizes add up to
\* HAL_ACCEL_MEM_SIZE and hal_mem_available() is the sum of the sizes of
\* the unused blocks.
C27_BlockList ==
  (ctx_live /\ mem_ctx)
    => /\ Len(blocks) >= 1
       /\ blocks[1].addr = accel_memory_base
       /\ \A i \in 1..(Len(blocks) - 1) :
            /\ blocks[i].addr <= blocks[i + 1].addr
            /\ blocks[i + 1].addr = blocks[i].addr + blocks[i].size
       /\ blocks[Len(blocks)].addr + blocks[Len(blocks)].size = WindowEnd
       /\ SumSizes(blocks, Len(blocks), AnyBlock) = HAL_ACCEL_MEM_SIZE
       /\ hal_mem_available(FALSE)
            = SumSizes(blocks, Len(blocks), UnusedBlock)

\* a free block lies between two used blocks and behind a block that
\* hal_mem_free has grown by merging
C27_Witness ==
  /\ ctx_live /\ mem_ctx
  /\ Len(blocks) >= 4
  /\ \E i \in 2..(Len(blocks) - 1) :
       /\ ~blocks[i].used
       /\ blocks[i - 1].used /\ blocks[i + 1].used
       /\ blocks[i].size = 3 * small_size

\* C28: no two neighbours in the block list are both unused, and when no
\* allocation is outstanding the list is one unused block that spans the
\* window.
C28_CoalescingComplete ==
  (ctx_live /\ mem_ctx)
    => /\ \A i \in 1..(Len(blocks) - 1) :
            blocks[i].used \/ blocks[i + 1].used
       /\ live = EmptyBag
            => blocks = << [addr |-> accel_memory_base,
                            size |-> HAL_ACCEL_MEM_SIZE, used |-> FALSE] >>

\* the unused blocks of the list that can hold n bytes
Adequate(n) ==
  {i \in 1..Len(blocks) : ~blocks[i].used /\ blocks[i].size >= n}

\* C29: from every state, hal_mem_alloc(size) with size > 0 returns the
\* address of an unused block of at least size rounded up to 64 bytes, no
\* other such block being smaller or equally small at a lower address, and
\* it returns NULL only if there is no such block.
C29_BestFit ==
  (ctx_live /\ mem_ctx)
    => \A size \in AllocSizes \ {0}, mallocOk \in BOOLEAN :
         LET r == hal_mem_alloc(FALSE, size, mallocOk)
         IN  IF r.ret = NULL
             THEN Adequate(RoundUp(size)) = {}
             ELSE \E i \in Adequate(RoundUp(size)) :
                    /\ blocks[i].addr = r.ret
                    /\ \A j \in Adequate(RoundUp(size)) :
                         \/ blocks[j].size > blocks[i].size
                         \/ /\ blocks[j].size = blocks[i].size
                            /\ blocks[j].addr >= blocks[i].addr

\* C30: from every state, a successful hal_mem_alloc(size) with size > 0
\* that chose a block more than 32 + 64 bytes larger than the rounded
\* request replaces it by a used block of the rounded request followed by
\* an unused block with the remainder, and otherwise only marks the block
\* used; either way hal_mem_available() goes down, by no less than the
\* rounded request and by no more than the rounded request plus 32 + 64.
C30_SplitRule ==
  (ctx_live /\ mem_ctx)
    => \A size \in AllocSizes \ {0}, mallocOk \in BOOLEAN :
         LET r == hal_mem_alloc(FALSE, size, mallocOk)
             n == RoundUp(size)
             before == SumSizes(blocks, Len(blocks), UnusedBlock)
             after == SumSizes(r.blocks, Len(r.blocks), UnusedBlock)
         IN  r.ret # NULL
               => /\ \E i \in 1..Len(blocks) :
                       /\ blocks[i].addr = r.ret /\ ~blocks[i].used
                       /\ IF blocks[i].size > n + 32 + 64
                          THEN r.blocks =
                                 SubSeq(blocks, 1, i - 1)
                                 \o << [addr |-> r.ret, size |-> n,
                                        used |-> TRUE],
                                       [addr |-> r.ret + n,
                                        size |-> blocks[i].size - n,
                                        used |-> FALSE] >>
                                 \o SubSeq(blocks, i + 1, Len(blocks))
                          ELSE r.blocks = [blocks EXCEPT ![i].used = TRUE]
                  /\ after < before
                  /\ before - after >= n
                  /\ before - after <= n + 32 + 64

\* ========================================================================
\* buffer.hpp: accel::Buffer, the owner of one accel_buffer_t
\* ========================================================================
\* everything below the C++ runtime: the HAL context and the driver session
progVars == <<ctxVars, memVars, xlat, ioVars, drvVars>>

BufObjs == 1..MaxBufObjs

\* Buffer(size_t size) hands its size to accel_alloc_buffer(uint32_t size)
to_uint32(size) == size % (UINT32_MAX + 1)

\* sizes given to Buffer(size): those of the driver tests and one that
\* does not fit in uint32_t
BufSizes ==
  {0, TestBufferSize, HAL_ACCEL_MEM_SIZE - 100,
   UINT32_MAX + 1 + TestBufferSize}

\* a moved-from Buffer that keeps its pointer
moved_from_kept(obj) == obj

\* "other.buffer_ = nullptr"
moved_from(obj) == [obj EXCEPT !.buffer_ = NoBuffer]

\* accel_free_buffer(buffer_) called by a Buffer.  A descriptor that is not
\* outstanding has been freed before: the call then reads freed memory,
\* and either still sees the old host address or does not.
buffer_release(ptr) ==
  IF ptr \in buffers
  THEN accel_free_buffer_call(FALSE, ptr) /\ UNCHANGED <<dangling, kept>>
  ELSE /\ dangling' = TRUE
       /\ kept' = kept
       /\ \E seen \in BOOLEAN :
            blocks' = IF seen THEN hal_mem_free(FALSE, ptr.host_addr)
                      ELSE blocks
       /\ UNCHANGED <<ctxVars, mem_ctx, live, oversize, fragPc, fragPtrs,
                      xlat, ioVars, drvVars>>

\* Buffer(size): accel_alloc_buffer, and the exception when it returns NULL
BufferCtor(o, size, descOk, mallocOk) ==
  /\ g_ctx.initialized
  /\ ~bufobjs[o].alive
  /\ accel_alloc_buffer_call(to_uint32(size), descOk, mallocOk)
  /\ LET r == hal_mem_alloc(FALSE, to_uint32(size), mallocOk)
     IN  bufobjs' =
           IF descOk /\ r.ret # NULL
           THEN [bufobjs EXCEPT
                   ![o] = [alive |-> TRUE,
                           buffer_ |-> accel_buffer(r.ret, to_uint32(size))]]
           ELSE bufobjs
  /\ UNCHANGED <<runtimes, dangling, kept, rt_call>>

\* ~Buffer()
BufferDtor(o) ==
  /\ pc = "idle"
  /\ g_ctx.initialized
  /\ bufobjs[o].alive
  /\ IF bufobjs[o].buffer_ # NoBuffer
     THEN buffer_release(bufobjs[o].buffer_)
     ELSE UNCHANGED <<progVars, dangling, kept>>
  /\ bufobjs' = [bufobjs EXCEPT ![o] = NoObject]
  /\ UNCHANGED <<runtimes, rt_call>>

\* Buffer(Buffer&& other)
BufferMoveCtor(o, other) ==
  /\ pc = "idle"
  /\ g_ctx.initialized
  /\ ~bufobjs[o].alive /\ bufobjs[other].alive
  /\ bufobjs' = [bufobjs EXCEPT
                   ![o] = [alive |-> TRUE,
                           buffer_ |-> bufobjs[other].buffer_],
                   ![other] = moved_from(bufobjs[other])]
  /\ UNCHANGED <<progVars, runtimes, dangling, kept, rt_call>>

\* operator=(Buffer&& other)
BufferMoveAssign(o, other) ==
  /\ pc = "idle"
  /\ g_ctx.initialized
  /\ bufobjs[o].alive /\ bufobjs[other].alive
  /\ IF o = other
     THEN UNCHANGED <<progVars, bufobjs, dangling, kept>>
     ELSE /\ IF bufobjs[o].buffer_ # NoBuffer
             THEN buffer_release(bufobjs[o].buffer_)
             ELSE UNCHANGED <<progVars, dangling, kept>>
          /\ bufobjs' = [bufobjs EXCEPT
                           ![o].buffer_ = bufobjs[other].buffer_,
                           ![other] = moved_from(bufobjs[other])]
  /\ UNCHANGED <<runtimes, rt_call>>

\* Buffers built, moved and destroyed while one session is open
NextBuf ==
  \/ AccelInit(FALSE, TRUE, PageSize, ZeroIR)
  \/ (\A o \in BufObjs : ~bufobjs[o].alive) /\ AccelCleanup
  \/ \E o \in BufObjs, size \in BufSizes, descOk, mallocOk \in BOOLEAN :
       BufferCtor(o, size, descOk, mallocOk)
  \/ \E o \in BufObjs : BufferDtor(o)
  \/ \E o, other \in BufObjs : BufferMoveCtor(o, other)
  \/ \E o, other \in BufObjs : BufferMoveAssign(o, other)

SpecBuf == Init /\ [][NextBuf]_vars

\* the descriptors the Buffer objects hold
Held == {bufobjs[o].buffer_ : o \in {x \in BufObjs : bufobjs[x].alive}}
          \ {NoBuffer}

\* C23: accel_free_buffer is never handed a descriptor that was freed
\* before, no two Buffer objects hold the same descriptor, and the
\* descriptors that are outstanding are exactly the ones the existing
\* Buffer objects hold, so that each is freed once, by the one object that
\* holds it; destroying a Buffer that holds a descriptor passes that
\* descriptor to accel_free_buffer, destroying a moved-from Buffer calls
\* nothing, and a move assignment to itself changes nothing.
C23_BufferOwnership ==
  /\ [](/\ ~dangling
        /\ \A o1, o2 \in BufObjs :
             (o1 # o2 /\ bufobjs[o1].alive /\ bufobjs[o2].alive
              /\ bufobjs[o1].buffer_ # NoBuffer)
               => bufobjs[o1].buffer_ # bufobjs[o2].buffer_
        /\ buffers = Held)
  /\ [][\A o \in BufObjs :
          BufferDtor(o)
            => IF bufobjs[o].buffer_ = NoBuffer
               THEN UNCHANGED <<buffers, blocks, live, returned>>
               ELSE /\ buffers' = buffers \ {bufobjs[o].buffer_}
                    /\ returned'.fn = "accel_free_buffer"
                    /\ call_arg'.buffer = bufobjs[o].buffer_]_vars
  /\ [][\A o \in BufObjs :
          BufferMoveAssign(o, o) => UNCHANGED <<buffers, blocks, bufobjs>>
       ]_vars

\* a move assignment has just freed the descriptor of its target and left
\* its source empty, while a third Buffer holds a descriptor of its own
C23_Witness ==
  /\ returned.fn = "accel_free_buffer"
  /\ \E o1, o2, o3 \in BufObjs :
       /\ bufobjs[o1].alive /\ bufobjs[o1].buffer_ = NoBuffer
       /\ bufobjs[o2].alive /\ bufobjs[o2].buffer_ # NoBuffer
       /\ bufobjs[o3].alive /\ bufobjs[o3].buffer_ # NoBuffer
       /\ o2 # o3
       /\ Cardinality(buffers) = 2

\* ========================================================================
\* runtime.hpp: accel::Runtime
\*
\* A Runtime method that polls is in progress over several steps: rt_call
\* holds the method, the facade call it is in ("submit", "wait") or how it
\* ended ("returned", "threw"), and the facade calls it has made with
\* their results.  The thread makes no other call until the method ends.
\* ========================================================================
Runtimes == 1..MaxRuntimes

RtIdle == pc = "idle" /\ rt_call.stage \in {"returned", "threw"}

\* Runtime(device_path): accel_init, then accel_reset_config; the path of
\* a std::string is never NULL
RuntimeCtor(r, halOk, base, reset) ==
  /\ RtIdle
  /\ ~runtimes[r]
  /\ g_ctx.initialized \/ ~ctx_live
  /\ LET rc == accel_init(FALSE, halOk)
     IN  IF rc = "ERROR"
         THEN /\ accel_init_call(FALSE, halOk, base, reset)
              /\ runtimes' = runtimes
              /\ rt_call' = [method |-> "Runtime", stage |-> "threw",
                             calls |-> << [fn |-> "accel_init",
                                           val |-> "ERROR"] >>]
         ELSE /\ IF rc = "OK"
                 THEN accel_reset_config_call
                 ELSE /\ hal_init(base, reset)
                      /\ g_ctx' = [g_ctx EXCEPT !.initialized = TRUE,
                                                !.config = DefaultConfig]
                      /\ returned' = [fn |-> "accel_reset_config",
                                      val |-> "OK"]
                      /\ regs_at_call' = reset
                      /\ polls' = 0
                      /\ call_arg' = NoArg
                      /\ hal_trace' = << >>
                      /\ writes' = << >>
                      /\ e2ePc' = -1 /\ e2eLog' = << >>
                      /\ buffers' = {}
                      /\ UNCHANGED <<pc, call, retries, inflight, prev_dirty>>
              /\ runtimes' = [runtimes EXCEPT ![r] = TRUE]
              /\ rt_call' = [method |-> "Runtime", stage |-> "returned",
                             calls |-> << [fn |-> "accel_init",
                                           val |-> "OK"],
                                         [fn |-> "accel_reset_config",
                                           val |-> "OK"] >>]
  /\ UNCHANGED <<bufobjs, dangling, kept>>

\* ~Runtime()
RuntimeDtor(r) ==
  /\ RtIdle
  /\ runtimes[r]
  /\ accel_cleanup_call
  /\ runtimes' = [runtimes EXCEPT ![r] = FALSE]
  /\ rt_call' = [method |-> "~Runtime", stage |-> "returned",
                 calls |-> << [fn |-> "accel_cleanup", val |-> "OK"] >>]
  /\ UNCHANGED <<bufobjs, dangling, kept>>

\* Configure(flags) with the default num_channels, max_transfer, timeout_ms
RuntimeConfigure(r, flags) ==
  /\ RtIdle
  /\ runtimes[r]
  /\ accel_configure_call(FALSE,
       [flags |-> flags, num_channels |-> 1, max_transfer |-> 16777216,
        timeout_ms |-> 1000])
  /\ rt_call' = [method |-> "Configure",
                 stage |-> IF returned'.val = "OK" THEN "returned"
                           ELSE "threw",
                 calls |-> << returned' >>]
  /\ UNCHANGED <<runtimes, bufobjs, dangling, kept>>

\* "accel_op_params_t params{}" with op_type, input and output assigned
runtime_params(op_type, input, output) ==
  [op_type |-> op_type, input |-> input, output |-> output, flags |-> 0]

\* MatrixMultiply / Convolution2D (input, weights, output) up to the first
\* read of the status inside accel_submit_op
RuntimeOperation(r, method, input, output) ==
  /\ RtIdle
  /\ runtimes[r]
  /\ method \in {"MatrixMultiply", "Convolution2D"}
  /\ accel_submit_op_call(FALSE,
       runtime_params(IF method = "MatrixMultiply" THEN ACCEL_OP_MATMUL
                      ELSE ACCEL_OP_CONV2D, input, output))
  /\ rt_call' = [method |-> method, stage |-> "submit", calls |-> << >>]
  /\ UNCHANGED <<runtimes, bufobjs, dangling, kept>>

\* SubmitAndWait that does not look at what accel_wait_complete returns
submit_and_wait_unchecked(stage, rc) ==
  IF stage = "submit" /\ rc # "OK" THEN "threw"
  ELSE IF stage = "submit" THEN "wait"
  ELSE "returned"

\* SubmitAndWait: what follows the facade call of this stage when it has
\* returned rc
submit_and_wait(stage, rc) ==
  IF rc # "OK" THEN "threw"
  ELSE IF stage = "submit" THEN "wait"
  ELSE "returned"

\* SubmitAndWait from the return of accel_submit_op or accel_wait_complete
\* up to the next read of the status, or to the end of the method
SubmitAndWait ==
  /\ pc = "idle"
  /\ rt_call.stage \in {"submit", "wait"}
  /\ LET next == submit_and_wait(rt_call.stage, returned.val)
         made == Append(rt_call.calls,
                        [fn |-> returned.fn, val |-> returned.val,
                         arg |-> call_arg])
     IN  /\ rt_call' = [rt_call EXCEPT !.stage = next, !.calls = made]
         /\ IF next = "wait"
            THEN accel_wait_complete_call(0)
            ELSE UNCHANGED progVars
  /\ UNCHANGED <<runtimes, bufobjs, dangling, kept>>

\* status words the device shows while operations run
RunStatusValues ==
  {HAL_STATUS_READY, HAL_STATUS_BUSY, HAL_STATUS_READY + HAL_STATUS_ERROR}

\* Runtime objects constructed, used and destroyed by one thread, with the
\* status changing underneath
NextRun ==
  \/ \E r \in Runtimes, halOk \in BOOLEAN :
       RuntimeCtor(r, halOk, PageSize, ZeroIR)
  \/ \E r \in Runtimes : RuntimeDtor(r)
  \/ \E r \in Runtimes :
       RuntimeConfigure(r, ACCEL_CONFIG_ENABLE_DMA + ACCEL_CONFIG_SYNC_MODE)
  \/ \E r \in Runtimes, method \in {"MatrixMultiply", "Convolution2D"} :
       RuntimeOperation(r, method,
         [dev_addr |-> HAL_ACCEL_MEM_BASE, size |-> 1024],
         [dev_addr |-> HAL_ACCEL_MEM_BASE + 1024, size |-> 512])
  \/ SubmitAndWait
  \/ \E s \in RunStatusValues : HalSetStatus(s)
  \/ Poll

SpecRun == Init /\ [][NextRun]_vars

\* C24: MatrixMultiply and Convolution2D call accel_submit_op first, with
\* op_type 1 (MATMUL) resp. 2 (CONV2D) and flags 0; accel_wait_complete is
\* entered only right after an accel_submit_op of the method has returned
\* OK; the method throws when accel_submit_op returns anything else, having
\* made no second call, and after accel_wait_complete it returns normally
\* if and only if that call returned OK.
C24_SubmitThenWait ==
  /\ [](rt_call.method \in {"MatrixMultiply", "Convolution2D"}
          => LET c == rt_call.calls
             IN  /\ rt_call.stage = "submit" => c = << >>
                 /\ rt_call.stage # "submit"
                      => /\ Len(c) >= 1
                         /\ c[1].fn = "accel_submit_op"
                         /\ ~c[1].arg.params_null
                         /\ c[1].arg.params.op_type =
                              (IF rt_call.method = "MatrixMultiply" THEN 1
                               ELSE 2)
                         /\ c[1].arg.params.flags = 0
                 /\ rt_call.stage = "wait"
                      => Len(c) = 1 /\ c[1].val = "OK"
                 /\ rt_call.stage \in {"returned", "threw"}
                      => IF c[1].val # "OK"
                         THEN Len(c) = 1 /\ rt_call.stage = "threw"
                         ELSE /\ Len(c) = 2
                              /\ c[2].fn = "accel_wait_complete"
                              /\ rt_call.stage = "returned"
                                   <=> c[2].val = "OK")
  /\ [][(pc = "idle" /\ pc' = "poll" /\ call'.fn = "accel_wait_complete")
          => /\ rt_call.stage = "submit"
             /\ returned = [fn |-> "accel_submit_op", val |-> "OK"]]_vars

\* a Convolution2D has returned normally after both calls returned OK
C24_Witness ==
  /\ rt_call.method = "Convolution2D"
  /\ rt_call.stage = "returned"
  /\ Len(rt_call.calls) = 2
  /\ rt_call.calls[2].val = "OK"

\* a MatrixMultiply has thrown because accel_wait_complete timed out
C24_WitnessTimeout ==
  /\ rt_call.method = "MatrixMultiply"
  /\ rt_call.stage = "threw"
  /\ Len(rt_call.calls) = 2
  /\ rt_call.calls[2].val = "TIMEOUT"

\* C25: while a Runtime object exists the session is initialized, and
\* while none exists it is not.
C25_SessionOwned ==
  RtIdle
    => /\ (\E r \in Runtimes : runtimes[r]) => g_ctx.initialized
       /\ (\A r \in Runtimes : ~runtimes[r]) => ~g_ctx.initialized

\* ========================================================================
\* Rounding of the request (hal_mem.c: align_size)
\* ========================================================================
\* C31: from every state, hal_mem_alloc(size) returns NULL for every size
\* greater than the window, the sizes within 63 of SIZE_MAX included, and
\* no block of the list has size 0.
C31_RoundingNeverShrinks ==
  (ctx_live /\ mem_ctx)
    => /\ \A size \in {s \in AllocSizes : s > HAL_ACCEL_MEM_SIZE},
             mallocOk \in BOOLEAN :
            hal_mem_alloc(FALSE, size, mallocOk).ret = NULL
       /\ \A i \in 1..Len(blocks) : blocks[i].size > 0

\* ========================================================================
\* Opening a context (hal_base.c: hal_init, hal_cleanup)
\* ========================================================================
\* what a log leaves acquired
Acquired(log) ==
  {log[i].what : i \in {j \in 1..Len(log) : log[j].op = "acquire"}}
Released(log) ==
  {log[i].what : i \in {j \in 1..Len(log) : log[j].op = "release"}}
HeldAfter(log) == Acquired(log) \ Released(log)

\* C32: a hal_init that returns a context holds the context object, the
\* device handle, both mappings and the allocator's two heap objects, and a
\* hal_init that returns NULL, whichever step failed, holds nothing of what
\* it acquired and has released nothing it did not acquire.
C32_InitAllOrNothing ==
  returned.fn = "hal_init"
    => IF returned.val = TRUE
       THEN /\ ctx_live /\ mem_ctx /\ accel_memory_base # NULL
            /\ HeldAfter(init_log)
                 = {"ctx", "fd", "mapped_memory", "accel_memory_base",
                    "mem_ctx", "block"}
       ELSE /\ HeldAfter(init_log) = {}
            /\ Released(init_log) = Acquired(init_log)

\* hal_init has returned NULL because hal_mem_init failed, after both
\* windows were mapped
C32_Witness ==
  /\ returned = [fn |-> "hal_init", val |-> FALSE]
  /\ {"mapped_memory", "accel_memory_base"} \subseteq Released(init_log)

\* the resources in the order in which a log acquired them, newest first
RECURSIVE NewestFirst(_, _)
NewestFirst(log, i) ==
  IF i = 0 THEN << >>
  ELSE (IF log[i].op = "acquire" THEN << log[i].what >> ELSE << >>)
       \o NewestFirst(log, i - 1)

\* C33: when hal_cleanup has returned on a context that was live, it has
\* released the allocator, the accelerator memory mapping, the register
\* mapping, the device handle and the context in this order, the reverse
\* of the order in which hal_init acquired them.
C33_ReverseOrder ==
  (returned.fn = "hal_cleanup" /\ Len(released) = Len(CleanupOrder))
    => released
         = SelectSeq(NewestFirst(hal_init_log("none"),
                                 Len(hal_init_log("none"))),
                     LAMBDA w : w # "block")

\* ========================================================================
\* The instruction record (hal_config.c)
\* ========================================================================
\* the records hal_configure_lsu / _systolic / _img2col hand to write_config
UnitRecords(fn) ==
  IF fn = "hal_configure_lsu" THEN {ir_lsu(c) : c \in LsuConfigs}
  ELSE IF fn = "hal_configure_systolic"
  THEN {ir_systolic(c) : c \in SystolicConfigs}
  ELSE {ir_img2col(c) : c \in Img2colConfigs}

\* C34: after hal_configure_lsu / _systolic / _img2col has returned true,
\* the register window holds the record built from the configuration given
\* (payload copied, every other field zero but the tag), and the opcode tag
\* of that record differs from the tag of every record another unit's
\* function writes.
C34_TaggedRecord ==
  (pc = "idle" /\ returned.fn \in ConfigFns /\ returned.val = TRUE)
    => /\ mapped_memory \in UnitRecords(returned.fn)
       /\ \A fn \in ConfigFns \ {returned.fn} :
            \A ir \in UnitRecords(fn) : ir.opcode # mapped_memory.opcode

\* ========================================================================
\* Who writes the stored configuration (accel_config.c, accel.c)
\* ========================================================================
\* C35: a step that changes g_ctx.config is the return of accel_configure,
\* accel_reset_config or accel_cleanup, and of a call that succeeded; every
\* other call of the facade, and every failing call, leaves it as it was.
C35_ConfigWriters ==
  [][(g_ctx'.config # g_ctx.config)
       => /\ returned'.fn \in {"accel_configure", "accel_reset_config",
                                "accel_cleanup"}
          /\ returned'.val = "OK"]_vars

\* accel_configure(NULL) has failed on a session that holds a configuration
\* stored earlier
C35_Witness ==
  /\ g_ctx.initialized
  /\ g_ctx.config \in TestConfigs
  /\ returned = [fn |-> "accel_configure", val |-> "INVALID_PARAM"]

\* ========================================================================
\* Who writes the status word (hal_base.c, hal_io.c, accel.c)
\* ========================================================================
NextReady ==
  \/ HalInit(PageSize, ZeroIR)
  \/ HalCleanup
  \/ HalWaitForReady(FALSE)
  \/ AccelInit(FALSE, TRUE, PageSize, ZeroIR)
  \/ AccelCleanup
  \/ \E s \in RunStatusValues : HalSetStatus(s)
  \/ AccelAllocBuffer(HAL_ACCEL_MEM_SIZE, TRUE, TRUE)
  \/ \E buffer \in buffers : AccelFreeBuffer(FALSE, buffer)
  \/ \E params \in {p \in OpsParams : p.op_type = ACCEL_OP_MATMUL
                                         /\ p.flags = 0} :
       AccelSubmitOp(FALSE, params)
  \/ AccelWaitComplete(1000)
  \/ AccelConfigure(FALSE, ZeroSession.config)
  \/ Poll

SpecReady == Init /\ [][NextReady]_vars

\* C36: the step that creates a context (hal_init, also inside accel_init)
\* leaves the status word equal to READY, a hal_wait_for_ready that finds
\* it so returns true at its first poll, and while a context exists every
\* step that changes the status word is a hal_set_status.
C36_StatusWriters ==
  /\ [][(~ctx_live /\ ctx_live') => status' = 1]_vars
  /\ [][(WaitStep /\ polls = 0 /\ status = 1)
          => returned' = WaitReturned(TRUE) /\ polls' = 1]_vars
  /\ [][(ctx_live /\ ctx_live' /\ status' # status)
          => \E s \in StatusWords : HalSetStatus(s)]_vars

\* accel_submit_op has returned OK while the status word held ERROR next
\* to READY, and the word is still the same
C36_Witness ==
  /\ g_ctx.initialized
  /\ returned = [fn |-> "accel_submit_op", val |-> "OK"]
  /\ status = HAL_STATUS_READY + HAL_STATUS_ERROR
  /\ buffers # {}

\* ========================================================================
\* A submission that fails (accel.c: accel_submit_op)
\* ========================================================================
\* C38: when accel_submit_op has returned NOT_INITIALIZED, INVALID_PARAM or
\* ERROR, the register window holds what it held when the call began,
\* whatever the status word did during the call.
C38_SubmitAllOrNothing ==
  (pc = "idle" /\ returned.fn = "accel_submit_op" /\ returned.val # "OK")
    => mapped_memory = regs_at_call

\* ========================================================================
\* Descriptors that outlive their session (accel.c: accel_free_buffer)
\* ========================================================================
\* accel_cleanup() by a caller that has not freed its buffers and keeps the
\* descriptors: accel_cleanup frees no descriptor
AccelCleanupKept ==
  /\ g_ctx.initialized
  /\ accel_cleanup_call
  /\ kept' = buffers
  /\ UNCHANGED <<runtimes, bufobjs, dangling, rt_call>>

\* accel_free_buffer(buffer) with a descriptor kept from the session closed
\* last, while a new session is running
AccelFreeKept(buffer) ==
  /\ g_ctx.initialized
  /\ buffer \in kept \ buffers
  /\ accel_free_buffer_any(FALSE, buffer)
  /\ kept' = kept \ {buffer}
  /\ UNCHANGED <<runtimes, bufobjs, dangling, rt_call>>

\* buffers one session holds at a time in the runs explored here
MaxKept == 2

NextKept ==
  \/ AccelInit(FALSE, TRUE, PageSize, ZeroIR)
  \/ AccelCleanupKept
  \/ \E size \in {TestBufferSize, 2 * TestBufferSize} :
       Cardinality(buffers) < MaxKept /\ AccelAllocBuffer(size, TRUE, TRUE)
  \/ \E buffer \in buffers : AccelFreeBuffer(FALSE, buffer)
  \/ \E buffer \in kept : AccelFreeKept(buffer)

SpecKept == Init /\ [][NextKept]_vars

\* C39: the block of every buffer that is outstanding in the running
\* session is marked used, whatever descriptors accel_free_buffer has been
\* handed, those of an earlier session included.
C39_FreeOwnBlockOnly ==
  g_ctx.initialized
    => \A b \in buffers :
         \E i \in 1..Len(blocks) :
           blocks[i].addr = b.host_addr /\ blocks[i].used

\* ========================================================================
\* The size of a Buffer (buffer.hpp: Buffer::Buffer, Buffer::size)
\* ========================================================================
\* C40: a Buffer(size) that has been constructed reports size() equal to
\* size and its block in device memory has at least size bytes, for every
\* size, those that do not fit in uint32_t included.
C40_BufferSizeHonoured ==
  [][\A o \in BufObjs, size \in BufSizes, descOk, mallocOk \in BOOLEAN :
       (BufferCtor(o, size, descOk, mallocOk) /\ bufobjs'[o].alive)
         => /\ bufobjs'[o].buffer_.size = size
            /\ \E i \in 1..Len(blocks') :
                 /\ blocks'[i].addr = bufobjs'[o].buffer_.host_addr
                 /\ blocks'[i].used
                 /\ blocks'[i].size >= size]_vars

\* ========================================================================
\* Two contexts on one device (test_hal_init_multiple)
\* ========================================================================
\* a mem_ctx that is the same static object in every hal_mem_init
static_mem_ctx == {1}

\* malloc(sizeof(struct hal_mem_context)): an object no live context holds
malloc_mem_ctx == {m \in MemCtxs : ~mem_ctxs[m].live}

\* where mmap places the accelerator memory of context c: two live mappings
\* of HAL_ACCEL_MEM_SIZE bytes never overlap
mmap_base(c) == c * PageSize

\* ctx->mem_ctx->blocks of context c
blocks_of(c) == mem_ctxs[contexts[c].mem_ctx].blocks

\* hal_mem_alloc(ctx, size) on the block list of context c: [ret, blocks]
hal_mem_alloc_on(c, size, mallocOk) ==
  IF size = 0
  THEN [ret |-> NULL, blocks |-> blocks_of(c)]
  ELSE LET bl == blocks_of(c)
           asize == align_size(size)
           bf == best_fit_scan(bl, 1, asize, 0)
       IN  IF bf = 0
           THEN [ret |-> NULL, blocks |-> bl]
           ELSE IF split_needed(bl[bf].size, asize) /\ ~mallocOk
                THEN [ret |-> NULL, blocks |-> bl]
                ELSE [ret |-> bl[bf].addr,
                      blocks |-> alloc_take(bl, bf, asize)]

\* the block list of context c after hal_mem_free(ctx, ptr)
hal_mem_free_on(c, ptr) ==
  LET bl == blocks_of(c)
      i == find_block(bl, 1, ptr)
  IN  IF ptr = NULL \/ i = 0 \/ ~bl[i].used
      THEN bl
      ELSE merge_prev(merge_next([bl EXCEPT ![i].used = FALSE], i), i)

\* hal_mem_available(ctx) of context c
hal_mem_available_on(c) ==
  IF ~contexts[c].live THEN 0 ELSE free_bytes(blocks_of(c), 1) % SizeMod

\* everything but the two contexts
oneVars == <<ctx_live, accel_memory_base, released, init_log, memVars, xlat,
             ioVars, drvVars, rtVars>>

\* hal_init("/dev/accelerator0") whose malloc returns context c
HalInitOn(c) ==
  /\ ~contexts[c].live
  /\ \E m \in malloc_mem_ctx :
       /\ mem_ctxs' = [mem_ctxs EXCEPT ![m] =
            [live |-> TRUE,
             blocks |-> hal_mem_init(mmap_base(c), HAL_ACCEL_MEM_SIZE)]]
       /\ contexts' = [contexts EXCEPT ![c] =
            [live |-> TRUE, status |-> HAL_STATUS_READY, mem_ctx |-> m,
             accel_memory_base |-> mmap_base(c)]]
  /\ ctx_arg' = c
  /\ UNCHANGED oneVars

\* hal_cleanup(ctx) of context c
HalCleanupOn(c) ==
  /\ contexts[c].live
  /\ mem_ctxs' = [mem_ctxs EXCEPT ![contexts[c].mem_ctx] = NoMemCtx]
  /\ contexts' = [contexts EXCEPT ![c] = NoContext]
  /\ ctx_arg' = c
  /\ UNCHANGED oneVars

\* hal_mem_alloc(ctx, size) on context c
HalMemAllocOn(c, size, mallocOk) ==
  /\ contexts[c].live
  /\ mem_ctxs' = [mem_ctxs EXCEPT ![contexts[c].mem_ctx].blocks =
                    hal_mem_alloc_on(c, size, mallocOk).blocks]
  /\ ctx_arg' = c
  /\ UNCHANGED <<contexts, oneVars>>

\* hal_mem_free(ctx, ptr) on context c
HalMemFreeOn(c, ptr) ==
  /\ contexts[c].live
  /\ mem_ctxs' = [mem_ctxs EXCEPT ![contexts[c].mem_ctx].blocks =
                    hal_mem_free_on(c, ptr)]
  /\ ctx_arg' = c
  /\ UNCHANGED <<contexts, oneVars>>

\* hal_set_status(ctx, s) on context c
HalSetStatusOn(c, s) ==
  /\ contexts[c].live
  /\ contexts' = [contexts EXCEPT ![c].status = s]
  /\ ctx_arg' = c
  /\ UNCHANGED <<mem_ctxs, oneVars>>

\* pointers handed to hal_mem_free: the block starts of either window
TwoPtrs ==
  {mmap_base(c) + k * TestBufferSize :
     c \in Contexts, k \in 0..(HAL_ACCEL_MEM_SIZE \div TestBufferSize - 1)}

NextTwo ==
  \/ \E c \in Contexts : HalInitOn(c)
  \/ \E c \in Contexts : HalCleanupOn(c)
  \/ \E c \in Contexts, size \in {TestBufferSize, 2 * TestBufferSize},
          mallocOk \in BOOLEAN : HalMemAllocOn(c, size, mallocOk)
  \/ \E c \in Contexts, ptr \in TwoPtrs : HalMemFreeOn(c, ptr)
  \/ \E c \in Contexts, s \in RunStatusValues : HalSetStatusOn(c, s)

SpecTwo == Init /\ [][NextTwo]_vars

\* C37: two contexts that are live together hold different allocator
\* objects, each of them live; and a call on one context (alloc, free,
\* set_status, cleanup, init) leaves the other context live or not as it was,
\* with the same status, the same hal_mem_available() and the same blocks.
C37_IndependentContexts ==
  /\ [](\A c \in Contexts :
          contexts[c].live
            => /\ mem_ctxs[contexts[c].mem_ctx].live
               /\ \A d \in Contexts \ {c} :
                    contexts[d].live
                      => contexts[d].mem_ctx # contexts[c].mem_ctx)
  /\ [][\A c \in Contexts :
          ctx_arg' # c
            => /\ contexts'[c] = contexts[c]
               /\ contexts[c].live
                    => /\ hal_mem_available_on(c)' = hal_mem_available_on(c)
                       /\ blocks_of(c)' = blocks_of(c)]_vars

\* the first context has been cleaned up while the second, opened after it
\* and before the cleanup, holds an allocation and a changed status
C37_Witness ==
  /\ ~contexts[1].live
  /\ ctx_arg = 1
  /\ contexts[2].live
  /\ contexts[2].status = HAL_STATUS_BUSY
  /\ hal_mem_available_on(2) = HAL_ACCEL_MEM_SIZE - TestBufferSize

\* ========================================================================
\* The whole program
\* ========================================================================
Next == NextMem \/ NextAlloc \/ NextIO \/ NextDrv \/ NextOps \/ NextSess
        \/ NextLife \/ NextCfg \/ NextStat \/ NextBuf \/ NextRun
        \/ NextReady \/ NextTwo \/ NextKept

Spec == Init /\ [][Next]_vars
====
